---- MODULE Spec2Model ----
(***************************************************************************)
(* Universal Academic Workflow: the node-graph execution and context       *)
(* propagation engine of App (src/unnamed/part_005).                       *)
(*                                                                         *)
(* Strings are sequences of atomic tokens: "" is << >>, concatenation is   *)
(* \o, a template literal is the concatenation of its literal pieces and   *)
(* its holes, and JavaScript truthiness of a string is non-emptiness.      *)
(* uuidv4() is a counter: every call returns a value never returned before.*)
(***************************************************************************)
EXTENDS Integers, Sequences, FiniteSets, TLC

VARIABLES
    nodes,            \* useState nodes: node id -> [type, config, status, label]
    edges,            \* useState edges: sequence of [id, source, target]
    executionStates,  \* useState executionStates: node id -> NodeExecutionState
    selectedNodeId,   \* useState selectedNodeId: a node id, or NoNode for null
    timerRefs,        \* timerRefs.current: the ids with a live interval
    startTimesRef,    \* startTimesRef.current: the ids with a start time
    pending,          \* the handleRunNode / handleContinueNode calls awaiting their promise
    uuid,             \* the number of uuidv4() calls made so far
    resolved,         \* what the render's getUpstreamContext calls returned since the last handler: at most the latest two
    lastOp,           \* the handler that ran last, with the id it was about
    retry,            \* the withRetry call under way: its mock fn, its counters, its outcome
    localStorage,     \* the storage: its quota, and the item under LOCAL_STORAGE_KEY
    extraction,       \* the extractRelevantContent call under way: its files, its batch, its tasks
    resolving         \* the getUpstreamContext call under way: its node, the edges its loop has left

vars == <<nodes, edges, executionStates, selectedNodeId, timerRefs, startTimesRef,
          pending, uuid, resolved, lastOp, retry, localStorage, extraction, resolving>>

NoNode == 0

\* localStorage.getItem: << >> for null, <<blob>> for the string of a blob
NoItem == << >>

Item(blob) == <<blob>>

EmptyStorage == [quota |-> 0, item |-> NoItem]

\* no withRetry call under way
NoRetry == [status |-> "idle"]

\* no extractRelevantContent call under way
NoExtraction == [status |-> "idle"]

\* no getUpstreamContext call under way
NoResolving == [status |-> "idle"]

----------------------------------------------------------------------------
(* Strings *)

Truthy(s) == s # << >>

NL2 == "\n\n"

Min(S) == CHOOSE x \in S : \A y \in S : x <= y

RECURSIVE Join(_, _)
\* Array.prototype.join: the elements separated by sep
Join(strs, sep) ==
    IF strs = << >> THEN << >>
    ELSE IF Len(strs) = 1 THEN strs[1]
    ELSE strs[1] \o <<sep>> \o Join(Tail(strs), sep)

\* Array.prototype.map over a sequence
Map(s, F(_)) == [i \in 1..Len(s) |-> F(s[i])]

Includes(s, tokens) == \E i \in 1..Len(s) : s[i] \in tokens

\* whether sub occurs in s as a contiguous run of tokens
Contains(s, sub) ==
    \E i \in 0..(Len(s) - Len(sub)) :
        \A j \in 1..Len(sub) : s[i + j] = sub[j]

----------------------------------------------------------------------------
(* Entity model *)

TaskType ==
    {"PROJECT_DEFINITION", "CONTEXT_PROCESSING", "OUTLINE_GENERATION",
     "CHAPTER_GENERATION", "CHAPTER_RECONSTRUCTION", "BOOK_TO_CHAPTER_TRANSMUTATION",
     "CHAPTER_INFUSION", "ACADEMIC_NOTE_GENERATION", "RED_TEAM_REVIEW",
     "FINAL_SYNTHESIS", "CITATION_VERIFICATION"}

WorkflowState ==
    {"CONFIGURING", "PRE_PROCESSING", "PROCESSING", "AWAITING_USER_ACTION",
     "COMPLETED", "ERROR"}

getInitialConfig(type) ==
    [ Task_Type               |-> type,
      Target_Word_Count       |-> << >>,
      Output_Language         |-> <<"English">>,
      Chapter_Title           |-> << >>,
      Chapter_Subtitle        |-> << >>,
      Additional_Instructions |-> << >>,
      Source_B_Files          |-> << >>,
      Source_B_Content        |-> << >>,
      Core_Bibliography       |-> << >>,
      Core_Bibliography_Files |-> << >>,
      Chapter_Outline         |-> << >>,
      Draft_Chapter_Text      |-> << >>,
      Red_Team_Review_Text    |-> << >> ]

getInitialExecutionState ==
    [ messages         |-> << >>,
      workflowState    |-> "CONFIGURING",
      documentSections |-> << >>,
      elapsedTime      |-> 0,
      logs             |-> << >> ]

\* the WorkflowNode handleAddNode builds: no label
NewNode(type) ==
    [ type |-> type, config |-> getInitialConfig(type), status |-> "idle", label |-> << >> ]

----------------------------------------------------------------------------
(* Context resolver: getUpstreamContext *)

RECURSIVE InsertByOrder(_, _)
\* x placed behind every element whose order is not larger: a stable insertion
InsertByOrder(sorted, x) ==
    IF sorted = << >> THEN <<x>>
    ELSE IF sorted[1].order <= x.order
         THEN <<sorted[1]>> \o InsertByOrder(Tail(sorted), x)
         ELSE <<x>> \o sorted

RECURSIVE SortByOrder(_)
\* documentSections.sort((a,b) => a.order - b.order): stable, and in place
SortByOrder(sections) ==
    IF sections = << >> THEN << >>
    ELSE InsertByOrder(SortByOrder(SubSeq(sections, 1, Len(sections) - 1)),
                       sections[Len(sections)])

\* s.versions.find(v => v.id === s.activeVersionId)?.content || ''
ActiveContent(s) ==
    LET hits == {i \in 1..Len(s.versions) : s.versions[i].id = s.activeVersionId}
    IN  IF hits = {} THEN << >> ELSE s.versions[Min(hits)].content

\* the sections' active contents joined, in the order the array has
SectionsText(sections) == Join(Map(sections, ActiveContent), NL2)

\* the visible assistant messages joined
ChatText(messages) ==
    Join(Map(SelectSeq(messages, LAMBDA m : m.role = "assistant" /\ ~m.isHidden),
             LAMBDA m : m.content), NL2)

\* sourceNode.label || sourceNode.type
LabelOrType(node) == IF Truthy(node.label) THEN node.label ELSE <<node.type>>

RECURSIVE SafeLabel(_)
\* label.replace(/\s+/g, '_'): every run of white space becomes one underscore
SafeLabel(label) ==
    IF label = << >> THEN << >>
    ELSE IF label[1] = " "
         THEN IF Len(label) > 1 /\ label[2] = " "
              THEN SafeLabel(Tail(label))
              ELSE <<"_">> \o SafeLabel(Tail(label))
         ELSE <<label[1]>> \o SafeLabel(Tail(label))

ContextOpen  == "\n<context_source id=\""
ContextMid   == "\" type=\"context_processing_output\">\n"
ContextClose == "\n</context_source>\n"

\* the id attribute of the block: (sourceNode.label || "Context_Batch").replace(/\s+/g, '_')
TagId(sourceNode) ==
    SafeLabel(IF Truthy(sourceNode.label) THEN sourceNode.label ELSE <<"Context_Batch">>)

\* the structured XML block of a context-processing source
StructuredBlock(sourceNode, contentToUse) ==
    <<ContextOpen>> \o TagId(sourceNode) \o <<ContextMid>> \o contentToUse \o <<ContextClose>>

\* combinedBibliography.includes("context_source")
IncludesContextSource(s) == Includes(s, {ContextOpen, ContextClose})

ProjectDirectives == "\n\nGlobal Project Directives:\n"

\* Append instructions or set if empty
AppendDirectives(existing, directives) ==
    IF Truthy(existing) THEN existing \o <<ProjectDirectives>> \o directives ELSE directives

\* upstreamSources[field] = name
Put(ups, field, name) == [f \in DOMAIN ups \cup {field} |-> IF f = field THEN name ELSE ups[f]]

\* Overwrite that keeps a value the target already has
Overwrite_IfEmpty(cfg, field, value) ==
    IF Truthy(value) /\ ~Truthy(cfg[field]) THEN [cfg EXCEPT ![field] = value] ELSE cfg

\* if (source.field) config.field = source.field
Overwrite(cfg, field, value) == IF Truthy(value) THEN [cfg EXCEPT ![field] = value] ELSE cfg

\* if (!config.field && source.field) config.field = source.field
FillIn(cfg, field, value) ==
    IF ~Truthy(cfg[field]) /\ Truthy(value) THEN [cfg EXCEPT ![field] = value] ELSE cfg

\* the Additional_Instructions of the project definition appended to the target's own
InheritDirectives(cfg, directives) ==
    IF Truthy(directives)
    THEN [cfg EXCEPT !.Additional_Instructions =
             AppendDirectives(cfg.Additional_Instructions, directives)]
    ELSE cfg

\* 1. PROJECT DEFINITION INHERITANCE (Global Metadata) & MERGE LOGIC
InheritProject(cfg, sc) ==
    Overwrite(
      Overwrite(
        InheritDirectives(
          Overwrite(
            Overwrite(cfg, "Chapter_Title", sc.Chapter_Title),
            "Chapter_Subtitle", sc.Chapter_Subtitle),
          sc.Additional_Instructions),
        "Target_Word_Count", sc.Target_Word_Count),
      "Output_Language", sc.Output_Language)

\* 2. CONTEXT LIBRARY INHERITANCE (Bibliography & Content): the block appended to both
InheritContext(acc, block) ==
    [acc EXCEPT !.bib = acc.bib \o block,
                !.sb  = acc.sb \o block,
                !.ups = Put(Put(acc.ups, "Core_Bibliography", <<"Context Library">>),
                            "Source_B_Content", <<"Context Library">>)]

\* if (sType === PROJECT_DEFINITION) {...} else if (sType === CONTEXT_PROCESSING) {...}
\* else if (source bibliography && no own bibliography) {...}
InheritBranch(acc, sourceNode, contentToUse) ==
    IF sourceNode.type = "PROJECT_DEFINITION" THEN
        [acc EXCEPT !.cfg = InheritProject(acc.cfg, sourceNode.config),
                    !.ups = IF Truthy(sourceNode.config.Chapter_Title)
                            THEN Put(acc.ups, "Chapter_Title", <<"Project Definition">>)
                            ELSE acc.ups]
    ELSE IF sourceNode.type = "CONTEXT_PROCESSING" THEN
        InheritContext(acc, StructuredBlock(sourceNode, contentToUse))
    ELSE IF Truthy(sourceNode.config.Core_Bibliography)
            /\ ~Truthy(acc.cfg.Core_Bibliography)
            /\ ~IncludesContextSource(acc.bib)
         THEN [acc EXCEPT !.cfg.Core_Bibliography = sourceNode.config.Core_Bibliography,
                          !.ups = Put(acc.ups, "Core_Bibliography", LabelOrType(sourceNode))]
    ELSE acc

\* General fallback inheritance for non-Project nodes
FallbackInherit(acc, sourceNode) ==
    IF sourceNode.type = "PROJECT_DEFINITION" THEN acc
    ELSE [acc EXCEPT
            !.cfg = FillIn(FillIn(acc.cfg, "Chapter_Title", sourceNode.config.Chapter_Title),
                           "Chapter_Subtitle", sourceNode.config.Chapter_Subtitle),
            !.ups = IF ~Truthy(acc.cfg.Chapter_Title) /\ Truthy(sourceNode.config.Chapter_Title)
                    THEN Put(acc.ups, "Chapter_Title", LabelOrType(sourceNode))
                    ELSE acc.ups]

\* Inherit Outline for Context Processing context-aware extraction
OutlineInherit(acc, sourceNode, tType, contentToUse) ==
    IF tType = "CONTEXT_PROCESSING" /\ ~Truthy(acc.cfg.Chapter_Outline)
       /\ Truthy(contentToUse) /\ sourceNode.type = "OUTLINE_GENERATION"
    THEN [acc EXCEPT !.cfg.Chapter_Outline = contentToUse,
                     !.ups = Put(acc.ups, "Chapter_Outline", LabelOrType(sourceNode))]
    ELSE acc

\* edges.find(e => e.target === id): the positions of the edges into id
EdgesInto(edgeSeq, id) == {i \in 1..Len(edgeSeq) : edgeSeq[i].target = id}

\* the draft the critique was fed: draftState.documentSections.map(...).join('\n\n')
TwoHopDraft(acc, nodeMap, edgeSeq, sourceId) ==
    LET into == EdgesInto(edgeSeq, sourceId)
    IN  IF into = {} THEN acc
        ELSE LET draftNodeId == edgeSeq[Min(into)].source
             IN  IF draftNodeId \notin DOMAIN acc.st THEN acc
                 ELSE LET draftText == SectionsText(acc.st[draftNodeId].documentSections)
                          name == IF draftNodeId \in DOMAIN nodeMap
                                  THEN LabelOrType(nodeMap[draftNodeId])
                                  ELSE <<"Upstream Draft">>
                      IN  [acc EXCEPT !.cfg.Draft_Chapter_Text = draftText,
                                      !.ups = Put(acc.ups, "Draft_Chapter_Text", name)]

\* the mapping of the source's produced content by (source type, target type)
ContentMapping(acc, nodeMap, edgeSeq, sourceId, tType, contentToUse) ==
    LET sourceNode == nodeMap[sourceId]
        sType == sourceNode.type
    IN  IF sType = "OUTLINE_GENERATION" /\ tType = "CHAPTER_GENERATION" THEN
            [acc EXCEPT !.cfg.Chapter_Outline = contentToUse,
                        !.ups = Put(acc.ups, "Chapter_Outline", LabelOrType(sourceNode))]
        ELSE IF tType \in {"RED_TEAM_REVIEW", "CITATION_VERIFICATION"} THEN
            [acc EXCEPT !.cfg.Draft_Chapter_Text = contentToUse,
                        !.ups = Put(acc.ups, "Draft_Chapter_Text", LabelOrType(sourceNode))]
        ELSE IF sType = "RED_TEAM_REVIEW" /\ tType = "FINAL_SYNTHESIS" THEN
            TwoHopDraft([acc EXCEPT !.cfg.Red_Team_Review_Text = contentToUse,
                                    !.ups = Put(acc.ups, "Red_Team_Review_Text",
                                                LabelOrType(sourceNode))],
                        nodeMap, edgeSeq, sourceId)
        ELSE IF tType = "ACADEMIC_NOTE_GENERATION" /\ sType # "PROJECT_DEFINITION" THEN
            LET separator == IF Truthy(acc.sb) THEN <<NL2>> ELSE << >>
            IN  [acc EXCEPT !.sb = acc.sb \o separator \o <<"--- Input from ", sType, " ---\n">>
                                       \o contentToUse,
                            !.ups = Put(acc.ups, "Source_B_Content", LabelOrType(sourceNode))]
        ELSE acc

\* executionStates[sourceId].documentSections.sort(...): the array itself is reordered
SortSource(acc, sourceId) ==
    [acc EXCEPT !.st[sourceId].documentSections = SortByOrder(@)]

\* sourceText || sourceChatContent
ContentToUse(sourceState) ==
    IF Truthy(SectionsText(sourceState.documentSections))
    THEN SectionsText(sourceState.documentSections)
    ELSE ChatText(sourceState.messages)

\* if (!contentToUse) return; otherwise the content mapping
MapContent(acc, nodeMap, edgeSeq, sourceId, tType, contentToUse) ==
    IF ~Truthy(contentToUse) THEN acc
    ELSE ContentMapping(acc, nodeMap, edgeSeq, sourceId, tType, contentToUse)

\* the inheritance steps of one edge, in the order the loop body has them
Inherit(acc, nodeMap, edgeSeq, sourceId, tType, contentToUse) ==
    MapContent(
        OutlineInherit(
            FallbackInherit(
                InheritBranch(acc, nodeMap[sourceId], contentToUse),
                nodeMap[sourceId]),
            nodeMap[sourceId], tType, contentToUse),
        nodeMap, edgeSeq, sourceId, tType, contentToUse)

\* the loop body once the source's sections are sorted
EdgeSorted(acc, nodeMap, edgeSeq, sourceId, tType) ==
    Inherit(acc, nodeMap, edgeSeq, sourceId, tType, ContentToUse(acc.st[sourceId]))

EdgeStep_Placeholder(acc, nodeMap, edgeSeq, edge, tType) ==
    IF edge.source \notin DOMAIN nodeMap \/ edge.source \notin DOMAIN acc.st
    THEN [acc EXCEPT !.ups = Put(acc.ups, "Draft_Chapter_Text", <<"Upstream Draft">>)]
    ELSE EdgeSorted(SortSource(acc, edge.source), nodeMap, edgeSeq, edge.source, tType)

\* the body of incomingEdges.forEach for one edge
EdgeStep(acc, nodeMap, edgeSeq, edge, tType) ==
    IF edge.source \notin DOMAIN nodeMap \/ edge.source \notin DOMAIN acc.st THEN acc
    ELSE EdgeSorted(SortSource(acc, edge.source), nodeMap, edgeSeq, edge.source, tType)

RECURSIVE ForEachEdge(_, _, _, _, _)
ForEachEdge(acc, nodeMap, edgeSeq, incoming, tType) ==
    IF incoming = << >> THEN acc
    ELSE ForEachEdge(EdgeStep(acc, nodeMap, edgeSeq, incoming[1], tType),
                     nodeMap, edgeSeq, Tail(incoming), tType)

\* let effectiveConfig = { ...node.config }, and the two accumulators
StartContext(node, states) ==
    [ cfg |-> node.config,
      ups |-> << >>,
      sb  |-> node.config.Source_B_Content,
      bib |-> node.config.Core_Bibliography,
      st  |-> states ]

\* Apply accumulated content if it exists
ApplyAccumulated(end) ==
    Overwrite(Overwrite(end.cfg, "Source_B_Content", end.sb), "Core_Bibliography", end.bib)

ResolverResult(end) ==
    [ effectiveConfig |-> ApplyAccumulated(end), upstreamSources |-> end.ups,
      states |-> end.st ]

\* getUpstreamContext(node) on the snapshot (nodeMap, edgeSeq, states): the effective
\* config, the provenance map, and the execution states as the in-place sorts leave them
getUpstreamContext(nodeMap, edgeSeq, states, id) ==
    ResolverResult(
        ForEachEdge(StartContext(nodeMap[id], states), nodeMap, edgeSeq,
                    SelectSeq(edgeSeq, LAMBDA e : e.target = id), nodeMap[id].type))

----------------------------------------------------------------------------
(* Bounds *)

MaxUuid    == 9   \* uuidv4() calls in one behaviour
MaxRunUuid == 7   \* of these, the calls the node and run handlers may use up
MaxPending == 2   \* calls awaiting their promise at one time
MaxElapsed == 1   \* the elapsed seconds a tick can show
MaxNodes   == 1   \* nodes on the canvas at one time in the lifecycle specification
MaxLogs    == 1   \* log lines kept per node

----------------------------------------------------------------------------
(* Execution state updates and timers *)

\* { ...getInitialExecutionState(), ...newValues }: the fields that are not updated are reset
Merge_Fresh(current, newValues) ==
    [f \in DOMAIN current |->
        IF f \in DOMAIN newValues THEN newValues[f] ELSE getInitialExecutionState[f]]

\* { ...current, ...newValues }
Merge(current, newValues) ==
    [f \in DOMAIN current |-> IF f \in DOMAIN newValues THEN newValues[f] ELSE current[f]]

\* updateExecutionState(nodeId, updates): prev[nodeId] || getInitialExecutionState()
updateExecutionState(states, nodeId, Updates(_)) ==
    LET current == IF nodeId \in DOMAIN states THEN states[nodeId]
                   ELSE getInitialExecutionState
    IN  [k \in DOMAIN states \cup {nodeId} |->
            IF k = nodeId THEN Merge(current, Updates(current)) ELSE states[k]]

\* setNodes(prev => prev.map(n => n.id === nodeId ? { ...n, status } : n))
SetStatus_All(nodeMap, nodeId, status) ==
    [k \in DOMAIN nodeMap |-> [nodeMap[k] EXCEPT !.status = status]]

SetStatus(nodeMap, nodeId, status) ==
    [k \in DOMAIN nodeMap |-> IF k = nodeId THEN [nodeMap[k] EXCEPT !.status = status]
                              ELSE nodeMap[k]]

\* handleUpdateConfig(nodeId, newConfig)
handleUpdateConfig(nodeMap, nodeId, newConfig) ==
    [k \in DOMAIN nodeMap |->
        IF k = nodeId THEN [nodeMap[k] EXCEPT !.config = Merge(nodeMap[k].config, newConfig)]
        ELSE nodeMap[k]]

Op(name, a) == [op |-> name, a |-> a]

----------------------------------------------------------------------------
(* Versioned document store *)

HeadingLines == {"# Heading"}

\* extractTitleFromMarkdown: the text of the first heading-like line
extractTitleFromMarkdown(content) ==
    LET hits == {i \in 1..Len(content) : content[i] \in HeadingLines}
    IN  IF hits = {} THEN <<"Untitled Section">> ELSE <<"Heading">>

\* the ChapterSection handleAddSection builds; its two ids are fresh
NewSection(sections, sectionId, versionId, messageId, content) ==
    [ id              |-> sectionId,
      order           |-> Len(sections) + 1,
      title           |-> extractTitleFromMarkdown(content),
      versions        |-> << [id |-> versionId, content |-> content, source |-> "ai-generated"] >>,
      activeVersionId |-> versionId,
      sourceMessageId |-> messageId ]

\* AppendVersion without the repointing of activeVersionId
AppendVersion_NoRepoint(s, newVersion) ==
    [s EXCEPT !.versions = Append(s.versions, newVersion)]

\* { ...s, versions: [...s.versions, newVersion], activeVersionId: newVersion.id }
AppendVersion(s, newVersion) ==
    [s EXCEPT !.versions = Append(s.versions, newVersion), !.activeVersionId = newVersion.id]

\* handleUpdateSection's map over the sections
UpdateSections(sections, sectionId, versionId, content) ==
    Map(sections, LAMBDA s :
        IF s.id = sectionId
        THEN AppendVersion(s, [id |-> versionId, content |-> content, source |-> "user-edited"])
        ELSE s)

\* handleDeleteSection's filter
DeleteSections(sections, sectionId) == SelectSeq(sections, LAMBDA s : s.id # sectionId)

\* RevertSection without the test of the section id
RevertSection_EverySection(s, sectionId, versionId) ==
    [s EXCEPT !.activeVersionId = versionId]

\* s.id === sectionId ? { ...s, activeVersionId: versionId } : s
RevertSection(s, sectionId, versionId) ==
    IF s.id = sectionId THEN [s EXCEPT !.activeVersionId = versionId] ELSE s

\* handleRevertVersion's map over the sections
RevertSections(sections, sectionId, versionId) ==
    Map(sections, LAMBDA s : RevertSection(s, sectionId, versionId))

Contents == {<<"X">>, <<"# Heading", "Y">>}

SectionIds(states) ==
    UNION {{states[k].documentSections[i].id : i \in 1..Len(states[k].documentSections)}
           : k \in DOMAIN states}

handleAddSection(messageId, content) ==
    /\ selectedNodeId # NoNode
    /\ uuid + 2 <= MaxUuid
    /\ executionStates' = updateExecutionState(executionStates, selectedNodeId,
           LAMBDA prev : [documentSections |->
               Append(prev.documentSections,
                      NewSection(prev.documentSections, uuid + 1, uuid + 2, messageId, content))])
    /\ uuid' = uuid + 2
    /\ lastOp' = Op("addSection", uuid + 1)
    /\ UNCHANGED <<retry, localStorage, extraction, resolving>>
    /\ resolved' = << >>
    /\ UNCHANGED <<nodes, edges, selectedNodeId, timerRefs, startTimesRef, pending>>

handleUpdateSection(sectionId, content) ==
    /\ selectedNodeId # NoNode
    /\ uuid + 1 <= MaxUuid
    /\ executionStates' = updateExecutionState(executionStates, selectedNodeId,
           LAMBDA prev : [documentSections |->
               UpdateSections(prev.documentSections, sectionId, uuid + 1, content)])
    /\ uuid' = IF sectionId \in SectionIds(executionStates') THEN uuid + 1 ELSE uuid
    /\ lastOp' = Op("updateSection", sectionId)
    /\ UNCHANGED <<retry, localStorage, extraction, resolving>>
    /\ resolved' = << >>
    /\ UNCHANGED <<nodes, edges, selectedNodeId, timerRefs, startTimesRef, pending>>

handleDeleteSection(sectionId) ==
    /\ selectedNodeId # NoNode
    /\ executionStates' = updateExecutionState(executionStates, selectedNodeId,
           LAMBDA prev : [documentSections |-> DeleteSections(prev.documentSections, sectionId)])
    /\ lastOp' = Op("deleteSection", sectionId)
    /\ UNCHANGED <<retry, localStorage, extraction, resolving>>
    /\ UNCHANGED <<nodes, edges, selectedNodeId, timerRefs, startTimesRef, pending, uuid>>
    /\ resolved' = << >>

handleRevertVersion(sectionId, versionId) ==
    /\ selectedNodeId # NoNode
    /\ executionStates' = updateExecutionState(executionStates, selectedNodeId,
           LAMBDA prev : [documentSections |->
               RevertSections(prev.documentSections, sectionId, versionId)])
    /\ lastOp' = Op("revertVersion", sectionId)
    /\ UNCHANGED <<retry, localStorage, extraction, resolving>>
    /\ UNCHANGED <<nodes, edges, selectedNodeId, timerRefs, startTimesRef, pending, uuid>>
    /\ resolved' = << >>

\* what one getUpstreamContext(node) call of the render returns
RenderResult(nodeMap, edgeSeq, states, id) ==
    [ node            |-> id,
      effectiveConfig |-> getUpstreamContext(nodeMap, edgeSeq, states, id).effectiveConfig,
      upstreamSources |-> getUpstreamContext(nodeMap, edgeSeq, states, id).upstreamSources ]

\* the execution states as the render leaves them: upstreamContext =
\* selectedNode ? getUpstreamContext(selectedNode) : {...}
RenderStates(nodeMap, edgeSeq, states, selected) ==
    IF selected \in DOMAIN nodeMap
    THEN getUpstreamContext(nodeMap, edgeSeq, states, selected).states
    ELSE states

\* onNodeSelect = setSelectedNodeId, and the render that follows
SelectNode(id) ==
    /\ selectedNodeId # id
    /\ selectedNodeId' = id
    /\ executionStates' = RenderStates(nodes, edges, executionStates, id)
    /\ resolved' = IF id \in DOMAIN nodes
                   THEN <<RenderResult(nodes, edges, executionStates, id)>>
                   ELSE << >>
    /\ lastOp' = Op("select", id)
    /\ UNCHANGED <<retry, localStorage, extraction, resolving>>
    /\ UNCHANGED <<nodes, edges, timerRefs, startTimesRef, pending, uuid>>

\* the component rendered once more on the same nodes, edges and selection
Render ==
    /\ selectedNodeId \in DOMAIN nodes
    /\ executionStates' = RenderStates(nodes, edges, executionStates, selectedNodeId)
    /\ resolved' = (IF resolved = << >> THEN << >> ELSE <<resolved[Len(resolved)]>>)
                      \o <<RenderResult(nodes, edges, executionStates, selectedNodeId)>>
    /\ lastOp' = Op("render", selectedNodeId)
    /\ UNCHANGED <<retry, localStorage, extraction, resolving>>
    /\ UNCHANGED <<nodes, edges, selectedNodeId, timerRefs, startTimesRef, pending, uuid>>

----------------------------------------------------------------------------
(* Graph mutation *)

\* prev.filter(e => e.source !== id) : the edges from id kept, a slip for RemoveNodeEdges
RemoveNodeEdges_TargetOnly(edgeSeq, id) == SelectSeq(edgeSeq, LAMBDA e : e.target # id)

\* prev.filter(e => e.source !== id && e.target !== id)
RemoveNodeEdges(edgeSeq, id) ==
    SelectSeq(edgeSeq, LAMBDA e : e.source # id /\ e.target # id)

\* delete next[id]
Without(f, id) == [k \in DOMAIN f \ {id} |-> f[k]]

AddableTypes == {"CHAPTER_GENERATION"}

handleAddNode(type) ==
    /\ uuid + 1 <= MaxRunUuid
    /\ Cardinality(DOMAIN nodes) < MaxNodes
    /\ nodes' = [k \in DOMAIN nodes \cup {uuid + 1} |->
                    IF k = uuid + 1 THEN NewNode(type) ELSE nodes[k]]
    /\ executionStates' = [k \in DOMAIN executionStates \cup {uuid + 1} |->
                    IF k = uuid + 1 THEN getInitialExecutionState ELSE executionStates[k]]
    /\ selectedNodeId' = uuid + 1
    /\ uuid' = uuid + 1
    /\ lastOp' = Op("addNode", uuid + 1)
    /\ UNCHANGED <<retry, localStorage, extraction, resolving>>
    /\ resolved' = << >>
    /\ UNCHANGED <<edges, timerRefs, startTimesRef, pending>>

handleDeleteNode(id) ==
    /\ nodes' = Without(nodes, id)
    /\ edges' = RemoveNodeEdges(edges, id)
    /\ selectedNodeId' = IF selectedNodeId = id THEN NoNode ELSE selectedNodeId
    /\ executionStates' = RenderStates(Without(nodes, id), RemoveNodeEdges(edges, id),
                                       Without(executionStates, id), selectedNodeId')
    /\ resolved' = << >>
    /\ lastOp' = Op("deleteNode", id)
    /\ UNCHANGED <<retry, localStorage, extraction, resolving>>
    /\ UNCHANGED <<timerRefs, startTimesRef, pending, uuid>>

Connected_Never(edgeSeq, source, target) == FALSE

\* prev.some(e => e.source === source && e.target === target)
Connected(edgeSeq, source, target) ==
    \E i \in DOMAIN edgeSeq : edgeSeq[i].source = source /\ edgeSeq[i].target = target

\* handleConnect(source, target), and the render that follows
handleConnect(source, target) ==
    /\ edges' = IF Connected(edges, source, target) THEN edges
                ELSE Append(edges, [id |-> uuid + 1, source |-> source, target |-> target])
    /\ uuid' = IF Connected(edges, source, target) THEN uuid ELSE uuid + 1
    /\ executionStates' = RenderStates(nodes, edges', executionStates, selectedNodeId)
    /\ resolved' = << >>
    /\ lastOp' = Op("connect", 10 * source + target)
    /\ UNCHANGED <<nodes, selectedNodeId, timerRefs, startTimesRef, pending, retry,
                   localStorage, extraction, resolving>>

\* handleDeleteEdge(edgeId), and the render that follows
handleDeleteEdge(edgeId) ==
    /\ edges' = SelectSeq(edges, LAMBDA e : e.id # edgeId)
    /\ executionStates' = RenderStates(nodes, edges', executionStates, selectedNodeId)
    /\ resolved' = << >>
    /\ lastOp' = Op("deleteEdge", edgeId)
    /\ UNCHANGED <<nodes, selectedNodeId, timerRefs, startTimesRef, pending, uuid, retry,
                   localStorage, extraction, resolving>>

resetProject ==
    /\ timerRefs' = {}
    /\ startTimesRef' = {}
    /\ nodes' = << >>
    /\ edges' = << >>
    /\ executionStates' = << >>
    /\ selectedNodeId' = NoNode
    /\ resolved' = << >>
    /\ lastOp' = Op("resetProject", 0)
    /\ localStorage' = [localStorage EXCEPT !.item = NoItem]
    /\ UNCHANGED <<retry, extraction, resolving>>
    /\ UNCHANGED <<pending, uuid>>

----------------------------------------------------------------------------
(* Execution controller *)

\* the response lines of the model that carry one of the triggerPhrases
TriggerPhrases ==
    { "Awaiting command for the next section.", "Awaiting command for the first section.",
      "Awaiting command to generate a visual.", "Please confirm.",
      "Awaiting your selection of topics to infuse.",
      "Please confirm if this infusion plan is approved.",
      "Which specific theory should the chapter use?" }

StopPhrases ==
    { "Awaiting command for the next section.", "Awaiting command for the first section.",
      "Awaiting command to generate a visual.", "Please confirm.",
      "Awaiting your selection of topics to infuse.",
      "Please confirm if this infusion plan is approved." }

\* processResponseText: a trigger phrase anywhere means awaiting; one trailing stop
\* phrase is cut off the text
processResponseText(responseText) ==
    [ isAwaitingAction |-> Includes(responseText, TriggerPhrases),
      cleanedText |->
          IF responseText # << >> /\ responseText[Len(responseText)] \in StopPhrases
          THEN SubSeq(responseText, 1, Len(responseText) - 1)
          ELSE responseText ]

ResponseTexts == {<<"Body">>, <<"Body", "Awaiting command for the next section.">>}
UserMessages  == {<<"Proceed">>}
ErrorMessages == {<<"quota">>}
UserPrompt_None == << >>
\* responsePayload.userPrompt: the yaml of the run's config, never empty
UserPrompt    == <<"PROMPT">>

\* newMessages of the commit of a run: the prompt, hidden, if there is one, and the reply
RunMessages(messages, next, cleanedText) ==
    IF Truthy(UserPrompt)
    THEN messages \o << [id |-> next + 1, role |-> "user", content |-> UserPrompt,
                         isHidden |-> TRUE],
                        [id |-> next + 2, role |-> "assistant", content |-> cleanedText,
                         isHidden |-> FALSE] >>
    ELSE Append(messages, [id |-> next + 1, role |-> "assistant", content |-> cleanedText,
                           isHidden |-> FALSE])

\* startTimer's writes to the execution states; the refs are set by the caller
startTimerState(states, nodeId) ==
    updateExecutionState(states, nodeId, LAMBDA prev : [elapsedTime |-> 0])

\* the section handleRunNode seeds for a citation-verification node without sections
SeedSections(prev, type, draft, sectionId, versionId) ==
    IF type = "CITATION_VERIFICATION" /\ Truthy(draft) /\ Len(prev.documentSections) = 0
    THEN << [ id              |-> sectionId,
              order           |-> 1,
              title           |-> <<"Draft Chapter (For Verification)">>,
              versions        |-> << [id |-> versionId, content |-> draft,
                                      source |-> "ai-generated"] >>,
              activeVersionId |-> versionId,
              sourceMessageId |-> "upstream-import" ] >>
    ELSE prev.documentSections

Seeds(states, call) ==
    /\ call.kind = "run"
    /\ call.type = "CITATION_VERIFICATION" /\ Truthy(call.draft)
    /\ Len((IF call.node \in DOMAIN states THEN states[call.node]
            ELSE getInitialExecutionState).documentSections) = 0

\* handleRunNode up to its first await. The call waits for the generation unless
\* bibliography files are there to extract first. A call in flight keeps what its
\* closure holds, and the errors console.error has reported for it.
handleRunNode(nodeId) ==
    /\ nodeId \in DOMAIN nodes
    /\ Len(pending) < MaxPending
    /\ LET node == nodes[nodeId]
           ctx  == getUpstreamContext(nodes, edges, executionStates, nodeId)
           runConfig == ctx.effectiveConfig
           extract == Truthy(runConfig.Core_Bibliography_Files)
                         /\ ~Truthy(runConfig.Core_Bibliography)
           persist == ~extract /\ Truthy(runConfig.Core_Bibliography)
                         /\ ~Truthy(node.config.Core_Bibliography)
           running == SetStatus(nodes, nodeId, "running")
       IN  /\ nodes' = IF persist
                       THEN handleUpdateConfig(running, nodeId,
                                [Core_Bibliography |-> runConfig.Core_Bibliography])
                       ELSE running
           /\ executionStates' =
                 startTimerState(
                     updateExecutionState(ctx.states, nodeId,
                         LAMBDA prev : [workflowState |-> "PROCESSING"]),
                     nodeId)
           /\ pending' = Append(pending,
                 [ node |-> nodeId, kind |-> "run", type |-> node.type,
                   draft |-> runConfig.Draft_Chapter_Text,
                   stage |-> IF extract THEN "bibliography" ELSE "generation",
                   files |-> runConfig.Core_Bibliography_Files,
                   config |-> node.config,
                   errors |-> << >> ])
    /\ timerRefs' = timerRefs \cup {nodeId}
    /\ startTimesRef' = startTimesRef \cup {nodeId}
    /\ lastOp' = Op("runNode", nodeId)
    /\ UNCHANGED <<retry, localStorage, extraction, resolving>>
    /\ resolved' = << >>
    /\ UNCHANGED <<edges, selectedNodeId, uuid>>

\* handleContinueNode up to its await
handleContinueNode(message) ==
    /\ selectedNodeId # NoNode
    /\ Len(pending) < MaxPending
    /\ uuid + 1 <= MaxRunUuid
    /\ executionStates' =
          startTimerState(
              updateExecutionState(executionStates, selectedNodeId,
                  LAMBDA prev : [ workflowState |-> "PROCESSING",
                                  messages |-> Append(prev.messages,
                                      [id |-> uuid + 1, role |-> "user", content |-> message,
                                       isHidden |-> FALSE]) ]),
              selectedNodeId)
    /\ nodes' = SetStatus(nodes, selectedNodeId, "running")
    /\ pending' = Append(pending,
          [ node |-> selectedNodeId, kind |-> "continue",
            type |-> IF selectedNodeId \in DOMAIN nodes THEN nodes[selectedNodeId].type
                     ELSE "undefined",
            draft |-> << >>, stage |-> "generation", files |-> << >>,
            config |-> IF selectedNodeId \in DOMAIN nodes THEN nodes[selectedNodeId].config
                       ELSE << >>,
            errors |-> << >> ])
    /\ timerRefs' = timerRefs \cup {selectedNodeId}
    /\ startTimesRef' = startTimesRef \cup {selectedNodeId}
    /\ uuid' = uuid + 1
    /\ lastOp' = Op("continueNode", selectedNodeId)
    /\ UNCHANGED <<retry, localStorage, extraction, resolving>>
    /\ resolved' = << >>
    /\ UNCHANGED <<edges, selectedNodeId>>

\* stopTimer(nodeId) on timerRefs.current or startTimesRef.current: the entry is nulled
stopTimer_Keep(refs, nodeId) == refs

stopTimer(refs, nodeId) == refs \ {nodeId}

\* the promise of the service call has been awaited: no withRetry is under way any more,
\* what it counted is kept for inspection
Awaited(r) == [r EXCEPT !.status = "idle"]

RemoveAt(seq, i) == SubSeq(seq, 1, i - 1) \o SubSeq(seq, i + 1, Len(seq))

\* the interval callback startTimer installs
TimerTick(nodeId) ==
    /\ nodeId \in timerRefs
    /\ nodeId \in startTimesRef
    /\ executionStates' = updateExecutionState(executionStates, nodeId,
          LAMBDA prev : [elapsedTime |-> IF prev.elapsedTime < MaxElapsed
                                         THEN prev.elapsedTime + 1 ELSE MaxElapsed])
    /\ lastOp' = Op("tick", nodeId)
    /\ UNCHANGED <<retry, localStorage, extraction, resolving>>
    /\ UNCHANGED <<nodes, edges, selectedNodeId, timerRefs, startTimesRef, pending, uuid>>
    /\ resolved' = << >>

\* the awaited generation call of pending[i] resolves with responseText
SettleSuccess(i, responseText) ==
    LET call == pending[i]
        r == processResponseText(responseText)
        state == IF r.isAwaitingAction THEN "AWAITING_USER_ACTION" ELSE "COMPLETED"
        seeds == Seeds(executionStates, call)
        used == IF call.kind = "run" THEN (IF seeds THEN 4 ELSE 2) ELSE 1
    IN  /\ call.stage = "generation"
        /\ uuid + used <= MaxRunUuid
        /\ timerRefs' = stopTimer(timerRefs, call.node)
        /\ startTimesRef' = stopTimer(startTimesRef, call.node)
        /\ executionStates' =
              IF call.kind = "run"
              THEN updateExecutionState(executionStates, call.node,
                      LAMBDA prev :
                        [ messages |-> RunMessages(prev.messages, uuid, r.cleanedText),
                          workflowState |-> state,
                          documentSections |->
                              SeedSections(prev, call.type, call.draft, uuid + 3, uuid + 4) ])
              ELSE updateExecutionState(executionStates, call.node,
                      LAMBDA prev :
                        [ messages |-> Append(prev.messages,
                              [id |-> uuid + 1, role |-> "assistant",
                               content |-> r.cleanedText, isHidden |-> FALSE]),
                          workflowState |-> state ])
        /\ nodes' = SetStatus(nodes, call.node,
                              IF r.isAwaitingAction THEN "running" ELSE "completed")
        /\ uuid' = uuid + used
        /\ pending' = RemoveAt(pending, i)
        /\ lastOp' = Op("settled", call.node)
        /\ retry' = Awaited(retry)
        /\ UNCHANGED <<localStorage, extraction, resolving>>
        /\ resolved' = << >>
    /\ UNCHANGED <<edges, selectedNodeId>>

\* the awaited generation call of pending[i] rejects with an error carrying message
SettleError(i, message) ==
    LET call == pending[i]
        before == IF call.node \in DOMAIN executionStates
                  THEN executionStates[call.node] ELSE getInitialExecutionState
    IN  /\ call.kind = "run" => Len(before.logs) < MaxLogs
        /\ timerRefs' = stopTimer(timerRefs, call.node)
        /\ startTimesRef' = stopTimer(startTimesRef, call.node)
        /\ executionStates' =
              IF call.kind = "run"
              THEN updateExecutionState(executionStates, call.node,
                      LAMBDA prev : [ workflowState |-> "ERROR",
                                      logs |-> Append(prev.logs, <<"Error: ">> \o message) ])
              ELSE updateExecutionState(executionStates, call.node,
                      LAMBDA prev : [ workflowState |-> "ERROR" ])
        /\ nodes' = SetStatus(nodes, call.node, "error")
        /\ pending' = RemoveAt(pending, i)
        /\ lastOp' = Op("failed", call.node)
        /\ retry' = Awaited(retry)
        /\ UNCHANGED <<localStorage, extraction, resolving>>
        /\ resolved' = << >>
    /\ UNCHANGED <<edges, selectedNodeId, uuid>>

\* the Run button of the configurator: shown for the selected node, disabled while it runs
RunEnabled(id) ==
    /\ id = selectedNodeId
    /\ id \in DOMAIN nodes
    /\ nodes[id].status # "running"

\* the continue input of the output panel of the selected node
ContinueEnabled ==
    /\ selectedNodeId \in DOMAIN nodes
    /\ selectedNodeId \in DOMAIN executionStates
    /\ LET s == executionStates[selectedNodeId]
       IN  \/ s.workflowState \in {"AWAITING_USER_ACTION", "COMPLETED", "ERROR"}
           \/ s.workflowState = "CONFIGURING" /\ Len(s.messages) > 0

Init ==
    /\ nodes = << >>
    /\ edges = << >>
    /\ executionStates = << >>
    /\ selectedNodeId = NoNode
    /\ timerRefs = {}
    /\ startTimesRef = {}
    /\ pending = << >>
    /\ uuid = 0
    /\ resolved = << >>
    /\ lastOp = Op("init", 0)
    /\ retry = NoRetry
    /\ localStorage = EmptyStorage
    /\ extraction = NoExtraction
    /\ resolving = NoResolving

Next ==
    \/ \E type \in AddableTypes : handleAddNode(type)
    \/ \E id \in DOMAIN nodes : handleDeleteNode(id)
    \/ \E id \in DOMAIN nodes \cup {NoNode} : SelectNode(id)
    \/ \E id \in DOMAIN nodes : RunEnabled(id) /\ handleRunNode(id)
    \/ \E m \in UserMessages : ContinueEnabled /\ handleContinueNode(m)
    \/ \E id \in timerRefs : TimerTick(id)
    \/ \E i \in 1..Len(pending), r \in ResponseTexts : SettleSuccess(i, r)
    \/ \E i \in 1..Len(pending), m \in ErrorMessages : SettleError(i, m)
    \/ resetProject

Spec == Init /\ [][Next]_vars

----------------------------------------------------------------------------
(* Properties of the lifecycle *)

Settled == {"AWAITING_USER_ACTION", "COMPLETED", "ERROR"}

\* a step of the state machine CONFIGURING -> PROCESSING -> Settled -> PROCESSING for the
\* workflow state of id, made by the operation op
MachineStep(old, new, op, id) ==
    \/ new = old
    \/ /\ old # "PROCESSING" /\ new = "PROCESSING"
       /\ op.op \in {"runNode", "continueNode"} /\ op.a = id
    \/ /\ old = "PROCESSING" /\ new \in Settled
       /\ op.op \in {"settled", "failed"} /\ op.a = id

\* C5: the workflow state kept under a node id follows CONFIGURING -> PROCESSING ->
\* {AWAITING_USER_ACTION | COMPLETED | ERROR}: it leaves a state other than PROCESSING only
\* by a runNode/continueNode that enters PROCESSING, and leaves PROCESSING only by the
\* settling of a call; it never moves from one settled state straight to another.
C5_StateMachine ==
    [][\A id \in DOMAIN executionStates \cap DOMAIN executionStates' :
          MachineStep(executionStates[id].workflowState,
                      executionStates'[id].workflowState, lastOp', id)]_vars

\* C10: a node and its execution state share lifetime: the ids with an execution state
\* are exactly the ids of the existing nodes, in every reachable state.
C10_SharedLifetime == DOMAIN executionStates = DOMAIN nodes

\* the logs kept under id, none when there is no execution state
LogsOf(states, id) == IF id \in DOMAIN states THEN states[id].logs ELSE << >>

\* C12: whenever the generation capability throws during runNode or continueNode, the
\* node's workflowState becomes ERROR and its logs grow by exactly one entry, which
\* holds the error's message.
C12_ErrorLogged ==
    [][lastOp'.op = "failed" =>
          /\ lastOp'.a \in DOMAIN executionStates'
          /\ executionStates'[lastOp'.a].workflowState = "ERROR"
          /\ Len(executionStates'[lastOp'.a].logs) = Len(LogsOf(executionStates, lastOp'.a)) + 1
          /\ SubSeq(executionStates'[lastOp'.a].logs, 1, Len(LogsOf(executionStates, lastOp'.a)))
                = LogsOf(executionStates, lastOp'.a)
          /\ \E m \in ErrorMessages :
                Contains(executionStates'[lastOp'.a].logs[Len(executionStates'[lastOp'.a].logs)], m)
    ]_vars

----------------------------------------------------------------------------
(* The resolver on graphs the canvas can hold: the snapshots below are built by
   handleAddNode, handleUpdateConfig, handleConnect, completed runs and the section
   handlers; nothing is selected yet, so no render has sorted a section list. *)

\* the node handleAddNode creates, after handleUpdateConfig(id, newConfig)
ConfiguredNode(type, newConfig) ==
    [NewNode(type) EXCEPT !.config = Merge(getInitialConfig(type), newConfig)]

\* the node after a run that completed
CompletedNode(type, newConfig) ==
    [ConfiguredNode(type, newConfig) EXCEPT !.status = "completed"]

\* the edge handleConnect(source, target) appends
Edge(source, target) == [id |-> 100 + 10 * source + target, source |-> source, target |-> target]

\* the execution state after a run that completed with the reply text
CompletedState(promptId, replyId, text, sections) ==
    [getInitialExecutionState EXCEPT
        !.workflowState = "COMPLETED",
        !.messages = << [id |-> promptId, role |-> "user", content |-> UserPrompt,
                         isHidden |-> TRUE],
                        [id |-> replyId, role |-> "assistant", content |-> text,
                         isHidden |-> FALSE] >>,
        !.documentSections = sections]

\* a section as handleAddSection leaves it, with the order it was given
Section(sectionId, order, versionId, messageId, content) ==
    [ id              |-> sectionId,
      order           |-> order,
      title           |-> extractTitleFromMarkdown(content),
      versions        |-> << [id |-> versionId, content |-> content,
                              source |-> "ai-generated"] >>,
      activeVersionId |-> versionId,
      sourceMessageId |-> messageId ]

\* every order in which handleConnect can have stored the edges of the set S
Orderings(S) ==
    {q \in [1..Cardinality(S) -> S] : \A i, j \in 1..Cardinality(S) : q[i] = q[j] => i = j}

\* the section lists a chapter node can hold: none (the reply left in the chat), one
\* section, and two sections added after earlier ones were deleted, so that the
\* later one has the smaller order
DraftLayouts ==
    { << >>,
      << Section(21, 1, 22, 14, <<"D1">>) >>,
      << Section(25, 3, 26, 14, <<"D2">>), Section(27, 2, 28, 14, <<"D1">>) >> }

ReviewLayouts == { << >>, << Section(31, 1, 32, 16, <<"R">>) >> }

\* outline 1 -> chapter 2 -> critique 3 -> synthesis 4, alone and with one more edge
ChainEdges ==
    { << Edge(1, 2), Edge(2, 3), Edge(3, 4) >>,
      << Edge(1, 2), Edge(2, 3), Edge(3, 4), Edge(2, 4) >>,
      << Edge(1, 2), Edge(2, 3), Edge(2, 4), Edge(3, 4) >>,
      << Edge(1, 2), Edge(1, 3), Edge(2, 3), Edge(3, 4) >> }

ChainSnapshots ==
    { [ nodes  |-> (1 :> CompletedNode("OUTLINE_GENERATION", [Chapter_Title |-> <<"OT">>])) @@
                   (2 :> CompletedNode("CHAPTER_GENERATION", << >>)) @@
                   (3 :> CompletedNode("RED_TEAM_REVIEW", << >>)) @@
                   (4 :> NewNode("FINAL_SYNTHESIS")),
        edges  |-> es,
        states |-> (1 :> CompletedState(11, 12, <<"O">>, << >>)) @@
                   (2 :> CompletedState(13, 14, <<"D1", "D2">>, draft)) @@
                   (3 :> CompletedState(15, 16, <<"R">>, review)) @@
                   (4 :> getInitialExecutionState) ]
      : es \in ChainEdges, draft \in DraftLayouts, review \in ReviewLayouts }

\* target 1 fed by project definition 2, and by any of project definition 3 and
\* outline 4, the edges stored in any order
FanInEdges ==
    UNION { {[i \in DOMAIN q |-> Edge(q[i], 1)] : q \in Orderings({2} \cup others)}
            : others \in SUBSET {3, 4} }

FanInSnapshots ==
    { [ nodes  |-> (1 :> ConfiguredNode("CHAPTER_GENERATION",
                            [Chapter_Title |-> title, Additional_Instructions |-> instr])) @@
                   (2 :> ConfiguredNode("PROJECT_DEFINITION",
                            [Chapter_Title |-> <<"T">>,
                             Additional_Instructions |-> <<"I1">>])) @@
                   (3 :> ConfiguredNode("PROJECT_DEFINITION",
                            [Chapter_Title |-> <<"T3">>,
                             Additional_Instructions |-> <<"I3">>])) @@
                   (4 :> CompletedNode("OUTLINE_GENERATION", [Chapter_Title |-> <<"OT">>])),
        edges  |-> es,
        states |-> (1 :> getInitialExecutionState) @@
                   (2 :> getInitialExecutionState) @@
                   (3 :> getInitialExecutionState) @@
                   (4 :> CompletedState(11, 12, <<"O">>, << >>)) ]
      : es \in FanInEdges, title \in {<< >>, <<"Own">>}, instr \in {<< >>, <<"I2">>} }

\* target 1 fed by the context libraries 2 and 3, and possibly by chapter 4 that has a
\* bibliography of its own, the edges stored in any order
ContextEdges ==
    UNION { {[i \in DOMAIN q |-> Edge(q[i], 1)] : q \in Orderings({2, 3} \cup others)}
            : others \in SUBSET {4} }

ContextSnapshots ==
    { [ nodes  |-> (1 :> ConfiguredNode("CHAPTER_GENERATION", [Core_Bibliography |-> bib])) @@
                   (2 :> CompletedNode("CONTEXT_PROCESSING", << >>)) @@
                   (3 :> CompletedNode("CONTEXT_PROCESSING", << >>)) @@
                   (4 :> ConfiguredNode("CHAPTER_GENERATION",
                            [Core_Bibliography |-> <<"B">>])),
        edges  |-> es,
        states |-> (1 :> getInitialExecutionState) @@
                   (2 :> CompletedState(11, 12, <<"X">>, << >>)) @@
                   (3 :> CompletedState(13, 14, <<"Y0">>,
                                        << Section(21, 1, 22, 14, <<"Y">>) >>)) @@
                   (4 :> getInitialExecutionState) ]
      : es \in ContextEdges, bib \in {<< >>, <<"OwnBib">>} }

Snapshots == ChainSnapshots \cup FanInSnapshots \cup ContextSnapshots

ResolveInit ==
    /\ \E g \in Snapshots :
          /\ nodes = g.nodes
          /\ edges = g.edges
          /\ executionStates = g.states
    /\ selectedNodeId = NoNode
    /\ timerRefs = {}
    /\ startTimesRef = {}
    /\ pending = << >>
    /\ uuid = MaxUuid   \* the ids of the snapshot are written out; none is drawn here
    /\ resolved = << >>
    /\ lastOp = Op("init", 0)
    /\ retry = NoRetry
    /\ localStorage = EmptyStorage
    /\ extraction = NoExtraction
    /\ resolving = NoResolving

ResolveNext ==
    \/ \E id \in DOMAIN nodes : SelectNode(id)
    \/ Render
    \/ \E id \in DOMAIN nodes : handleDeleteNode(id)

SpecResolve == ResolveInit /\ [][ResolveNext]_vars

----------------------------------------------------------------------------
(* Properties of the resolver *)

Max(S) == CHOOSE x \in S : \A y \in S : y <= x

\* the result of the latest getUpstreamContext call, made for node id
Latest == resolved[Len(resolved)]

JustResolved(id) == resolved # << >> /\ Latest.node = id

\* the sources of the edges into id, as a set
SourcesOf(edgeSeq, id) == {edgeSeq[i].source : i \in EdgesInto(edgeSeq, id)}

\* what a node has produced: its sections in order, or else its visible replies
Produced(states, id) ==
    ContentToUse([states[id] EXCEPT !.documentSections = SortByOrder(@)])

\* C1: on a fixed snapshot two resolver calls in a row for one node return equal
\* effective configs and equal provenance maps.
C1_Idempotent ==
    Len(resolved) = 2 =>
        /\ resolved[1].effectiveConfig = resolved[2].effectiveConfig
        /\ resolved[1].upstreamSources = resolved[2].upstreamSources

\* o -> d -> c -> t is a chain outline, chapter, critique, synthesis with no other edge
\* into d, c or t
IsChain(o, d, c, t) ==
    /\ nodes[o].type = "OUTLINE_GENERATION" /\ nodes[d].type = "CHAPTER_GENERATION"
    /\ nodes[c].type = "RED_TEAM_REVIEW"    /\ nodes[t].type = "FINAL_SYNTHESIS"
    /\ SourcesOf(edges, d) = {o}
    /\ SourcesOf(edges, c) = {d}
    /\ SourcesOf(edges, t) = {c}

\* C2: in a chain outline -> chapter -> critique -> synthesis, resolving the synthesis
\* node gives the chapter node's produced content as the draft and the critique node's
\* produced content as the review.
C2_TwoHop ==
    \A o \in DOMAIN nodes, d \in DOMAIN nodes, c \in DOMAIN nodes, t \in DOMAIN nodes :
        (IsChain(o, d, c, t) /\ JustResolved(t)) =>
            /\ Latest.effectiveConfig.Draft_Chapter_Text = Produced(executionStates, d)
            /\ Latest.effectiveConfig.Red_Team_Review_Text = Produced(executionStates, c)

\* x and y are two context libraries that both feed t and have both produced content
TwoLibraries(x, y, t) ==
    /\ x # y
    /\ nodes[x].type = "CONTEXT_PROCESSING" /\ nodes[y].type = "CONTEXT_PROCESSING"
    /\ {x, y} \subseteq SourcesOf(edges, t)
    /\ Truthy(Produced(executionStates, x)) /\ Truthy(Produced(executionStates, y))

\* C3: when two context libraries feed one target, its effective Core_Bibliography and
\* Source_B_Content each hold both contents, each in its own context_source block, and
\* the ids of the two blocks tell the two source nodes apart.
C3_TaggedMerge ==
    \A x \in DOMAIN nodes, y \in DOMAIN nodes, t \in DOMAIN nodes :
        (TwoLibraries(x, y, t) /\ JustResolved(t)) =>
            /\ \A f \in {"Core_Bibliography", "Source_B_Content"} :
                  /\ Contains(Latest.effectiveConfig[f],
                              StructuredBlock(nodes[x], Produced(executionStates, x)))
                  /\ Contains(Latest.effectiveConfig[f],
                              StructuredBlock(nodes[y], Produced(executionStates, y)))
            /\ TagId(nodes[x]) # TagId(nodes[y])

\* p is a project definition with a title and instructions that feeds t, and t has
\* instructions of its own
ProjectFeeds(p, t) ==
    /\ nodes[p].type = "PROJECT_DEFINITION"
    /\ p \in SourcesOf(edges, t)
    /\ Truthy(nodes[p].config.Chapter_Title)
    /\ Truthy(nodes[p].config.Additional_Instructions)
    /\ Truthy(nodes[t].config.Additional_Instructions)

\* the effective instructions hold the target's own and, behind the delimiter, p's
InstructionsMerged(p, t) ==
    /\ Contains(Latest.effectiveConfig.Additional_Instructions,
                nodes[t].config.Additional_Instructions)
    /\ Contains(Latest.effectiveConfig.Additional_Instructions,
                <<ProjectDirectives>> \o nodes[p].config.Additional_Instructions)

\* C4: a project definition with title T and instructions I1 feeding a target with own
\* instructions I2 gives effective instructions holding I2 and the delimited I1, and the
\* effective title T, whatever other edges the target has and in whatever order.
C4_FanIn ==
    \A p \in DOMAIN nodes, t \in DOMAIN nodes :
        (ProjectFeeds(p, t) /\ JustResolved(t)) =>
            /\ InstructionsMerged(p, t)
            /\ Latest.effectiveConfig.Chapter_Title = nodes[p].config.Chapter_Title

\* the positions of the edges into t from a project definition that has a title
TitledProjectEdges(t) ==
    {i \in EdgesInto(edges, t) :
        /\ edges[i].source \in DOMAIN nodes
        /\ nodes[edges[i].source].type = "PROJECT_DEFINITION"
        /\ Truthy(nodes[edges[i].source].config.Chapter_Title)}

\* C4 as amended: the effective instructions hold I2 and the delimited I1, and the
\* effective title is the title of the titled project definition whose edge to the
\* target is stored last; it is T when this node's edge is that one.
C4_FanInLastWins ==
    \A p \in DOMAIN nodes, t \in DOMAIN nodes :
        (ProjectFeeds(p, t) /\ JustResolved(t)) =>
            /\ InstructionsMerged(p, t)
            /\ Latest.effectiveConfig.Chapter_Title =
                  nodes[edges[Max(TitledProjectEdges(t))].source].config.Chapter_Title

\* C4 witness: target 1 with instructions and a title of its own resolved while project
\* definition 2 and, stored behind it, project definition 3 feed it
C4_Witness ==
    /\ JustResolved(1)
    /\ ProjectFeeds(2, 1) /\ ProjectFeeds(3, 1)
    /\ Min(EdgesInto(edges, 1) \cap {i \in DOMAIN edges : edges[i].source = 2})
          < Min(EdgesInto(edges, 1) \cap {i \in DOMAIN edges : edges[i].source = 3})
    /\ Truthy(nodes[1].config.Chapter_Title)
    /\ Latest.effectiveConfig.Chapter_Title = <<"T3">>

\* the edges that do not leave X
EdgesNotFrom(edgeSeq, X) == SelectSeq(edgeSeq, LAMBDA e : e.source # X)

\* what resolving n returns, without the execution states
Resolution(nodeMap, edgeSeq, states, n) ==
    [ effectiveConfig |-> getUpstreamContext(nodeMap, edgeSeq, states, n).effectiveConfig,
      upstreamSources |-> getUpstreamContext(nodeMap, edgeSeq, states, n).upstreamSources ]

\* C9: after deleteNode(X) no edge has X as source or target, executionStates has no
\* entry for X, and every remaining node resolves as it would have if the edges from X
\* had never existed: to its own config with no provenance when X was its only upstream.
C9_CascadeDelete ==
    [][lastOp'.op = "deleteNode" =>
          LET X == lastOp'.a
          IN  /\ \A i \in DOMAIN edges' : edges'[i].source # X /\ edges'[i].target # X
              /\ X \notin DOMAIN executionStates'
              /\ \A n \in DOMAIN nodes' :
                    /\ Resolution(nodes', edges', executionStates', n)
                          = Resolution(nodes, EdgesNotFrom(edges, X), executionStates, n)
                    /\ SourcesOf(edges, n) = {X} =>
                          Resolution(nodes', edges', executionStates', n)
                             = [effectiveConfig |-> nodes[n].config, upstreamSources |-> << >>]
    ]_vars

\* C9 witness: chapter 2 of the chain deleted while critique 3, which it alone fed, stays
\* and resolves to its own config
C9_Witness ==
    /\ lastOp = Op("deleteNode", 2)
    /\ 3 \in DOMAIN nodes /\ nodes[3].type = "RED_TEAM_REVIEW"
    /\ 1 \in DOMAIN nodes /\ nodes[1].type = "OUTLINE_GENERATION"
    /\ ~(\E i \in DOMAIN edges : edges[i].source = 1 /\ edges[i].target = 3)
    /\ Resolution(nodes, edges, executionStates, 3).effectiveConfig = nodes[3].config

----------------------------------------------------------------------------
(* The resolver on a loaded project with dangling edges: node 2 is not there, node 3
   has no execution state, critique 4 is complete *)

DanglingSnapshots ==
    { [ nodes  |-> (1 :> ConfiguredNode(type, [Chapter_Title |-> <<"Own">>])) @@
                   (3 :> ConfiguredNode("PROJECT_DEFINITION",
                            [Chapter_Title |-> <<"T">>,
                             Additional_Instructions |-> <<"I1">>])) @@
                   (4 :> CompletedNode("RED_TEAM_REVIEW", << >>)),
        edges  |-> [i \in DOMAIN q |-> Edge(q[i], 1)],
        states |-> IF left
                   THEN (1 :> getInitialExecutionState) @@
                        (2 :> CompletedState(11, 12, <<"Z">>, << >>)) @@
                        (4 :> CompletedState(15, 16, <<"R">>, << >>))
                   ELSE (1 :> getInitialExecutionState) @@
                        (4 :> CompletedState(15, 16, <<"R">>, << >>)) ]
      : type \in {"CHAPTER_GENERATION", "FINAL_SYNTHESIS", "ACADEMIC_NOTE_GENERATION"},
        left \in BOOLEAN,
        q \in UNION {Orderings(S) : S \in SUBSET {2, 3, 4}} }

DanglingInit ==
    /\ \E g \in DanglingSnapshots :
          /\ nodes = g.nodes
          /\ edges = g.edges
          /\ executionStates = g.states
    /\ selectedNodeId = NoNode
    /\ timerRefs = {}
    /\ startTimesRef = {}
    /\ pending = << >>
    /\ uuid = MaxUuid
    /\ resolved = << >>
    /\ lastOp = Op("init", 0)
    /\ retry = NoRetry
    /\ localStorage = EmptyStorage
    /\ extraction = NoExtraction
    /\ resolving = NoResolving

SpecDangling == DanglingInit /\ [][ResolveNext]_vars

Dangling(nodeMap, states, edge) ==
    edge.source \notin DOMAIN nodeMap \/ edge.source \notin DOMAIN states

\* the edges without the dangling ones into n
LiveEdges(nodeMap, edgeSeq, states, n) ==
    SelectSeq(edgeSeq, LAMBDA e : ~(e.target = n /\ Dangling(nodeMap, states, e)))

\* C19: resolving a node returns what it would return without its dangling incoming
\* edges (those whose source node or source execution state is missing), so that a node
\* all of whose incoming edges dangle, like a node with no incoming edge, resolves to its
\* own stored config with an empty provenance map.
C19_DanglingIgnored ==
    [][lastOp'.op = "select" /\ resolved' # << >> =>
          LET n == lastOp'.a
              result == [effectiveConfig |-> resolved'[1].effectiveConfig,
                         upstreamSources |-> resolved'[1].upstreamSources]
          IN  /\ result = Resolution(nodes, LiveEdges(nodes, edges, executionStates, n),
                                     executionStates, n)
              /\ (\A i \in EdgesInto(edges, n) : Dangling(nodes, executionStates, edges[i]))
                    => result = [effectiveConfig |-> nodes[n].config,
                                 upstreamSources |-> << >>] ]_vars

\* node 1 resolved with three incoming edges, two of them dangling and the live one
\* giving it the critique
C19_Witness ==
    /\ lastOp = Op("select", 1)
    /\ resolved # << >>
    /\ SourcesOf(edges, 1) = {2, 3, 4}
    /\ 2 \notin DOMAIN nodes /\ 2 \in DOMAIN executionStates
    /\ 3 \in DOMAIN nodes /\ 3 \notin DOMAIN executionStates
    /\ resolved[1].effectiveConfig.Red_Team_Review_Text = <<"R">>
    /\ resolved[1].effectiveConfig.Chapter_Title = <<"Own">>
    /\ DOMAIN resolved[1].upstreamSources = {"Red_Team_Review_Text"}

----------------------------------------------------------------------------
(* The canvas: three nodes connected, disconnected and deleted *)

MaxGraphUuid == 7

GraphInit ==
    /\ nodes = [k \in 1..3 |-> NewNode("CHAPTER_GENERATION")]
    /\ edges = << >>
    /\ executionStates = [k \in 1..3 |-> getInitialExecutionState]
    /\ selectedNodeId = 3
    /\ timerRefs = {}
    /\ startTimesRef = {}
    /\ pending = << >>
    /\ uuid = 3
    /\ resolved = << >>
    /\ lastOp = Op("init", 0)
    /\ retry = NoRetry
    /\ localStorage = EmptyStorage
    /\ extraction = NoExtraction
    /\ resolving = NoResolving

GraphNext ==
    \* handlePortMouseUp: a drag from the output port of one node dropped on another
    \/ \E connectingNodeId \in DOMAIN nodes, targetId \in DOMAIN nodes :
          /\ connectingNodeId # targetId
          /\ handleConnect(connectingNodeId, targetId)
          /\ uuid' <= MaxGraphUuid
    \* the edge menu, or handleInputPortMouseDown on a connected input
    \/ \E i \in DOMAIN edges : handleDeleteEdge(edges[i].id)
    \/ \E id \in DOMAIN nodes : handleDeleteNode(id)

SpecGraph == GraphInit /\ [][GraphNext]_vars

NoSelfLoop == \A i \in DOMAIN edges : edges[i].source # edges[i].target

NoDuplicate ==
    \A i, j \in DOMAIN edges :
        (edges[i].source = edges[j].source /\ edges[i].target = edges[j].target) => i = j

\* C20: after any sequence of connect, disconnect and deleteNode no edge is a self-loop
\* and no two edges have the same source and target, and a connect on a pair already
\* connected leaves the edges as they were.
C20_SimpleGraph ==
    /\ [](NoSelfLoop /\ NoDuplicate)
    /\ [][\A source, target \in DOMAIN nodes :
             (lastOp' = Op("connect", 10 * source + target)
                 /\ (\E i \in DOMAIN edges :
                        edges[i].source = source /\ edges[i].target = target))
             => edges' = edges]_vars

\* 1 is connected to 2 again, 1 -> 2 being the first of three edges and 2 -> 1 another
C20_Witness ==
    /\ lastOp = Op("connect", 12)
    /\ Len(edges) = 3
    /\ edges[1].source = 1 /\ edges[1].target = 2
    /\ \E i \in DOMAIN edges : edges[i].source = 2 /\ edges[i].target = 1

----------------------------------------------------------------------------
(* geminiService: withRetry around a mock fn whose outcomes are scripted *)

maxRetries == 3

MaxCalls == 4   \* the length of a mock's script of outcomes

\* an error thrown with this message; NoMessage is a thrown value without one
Err(message) == [kind |-> "error", message |-> message]
Ok(value)    == [kind |-> "ok", value |-> value]

NoMessage == "undefined"

\* the messages of the model whose lower-cased text holds '503', 'unavailable',
\* 'overloaded' or 'rate limit'
TransientMessages ==
    {"503 Service Unavailable", "The model is OVERLOADED", "Rate limit exceeded"}

FatalMessages == {"API key not valid", NoMessage}

\* isRetryableError(error)
isRetryableError(error) ==
    error.message # NoMessage /\ error.message \in TransientMessages

\* the retry test without the cap on the attempts
GiveUp_FatalOnly(attempt, error) == ~isRetryableError(error)

\* the retry test with the comparison off by one
GiveUp_OneMore(attempt, error) == attempt > maxRetries \/ ~isRetryableError(error)

\* if (attempt >= maxRetries || !isRetryableError(error)) throw error
GiveUp(attempt, error) == attempt >= maxRetries \/ ~isRetryableError(error)

Outcomes ==
    {Ok("response")} \cup {Err(m) : m \in {"503 Service Unavailable", "The model is OVERLOADED"}}
                     \cup {Err(m) : m \in FatalMessages}

\* the outcomes the mock fn gives, call after call
Scripts == [1..MaxCalls -> Outcomes]

\* withRetry(fn): let attempt = 0
RetryStart(script) ==
    [status |-> "calling", script |-> script, calls |-> 0, attempt |-> 0]

\* one pass of the loop body: await fn(), and the catch when it throws
RetryAttempt ==
    /\ retry.status = "calling"
    /\ retry.calls < MaxCalls
    /\ LET outcome == retry.script[retry.calls + 1]
       IN  retry' =
             IF outcome.kind = "ok"
             THEN [status |-> "returned", script |-> retry.script,
                   calls |-> retry.calls + 1, attempt |-> retry.attempt,
                   result |-> outcome.value]
             ELSE IF GiveUp(retry.attempt + 1, outcome)
             THEN [status |-> "thrown", script |-> retry.script,
                   calls |-> retry.calls + 1, attempt |-> retry.attempt + 1,
                   error |-> outcome]
             ELSE [status |-> "delaying", script |-> retry.script,
                   calls |-> retry.calls + 1, attempt |-> retry.attempt + 1]
    /\ lastOp' = Op("attempt", retry.calls + 1)
    /\ UNCHANGED <<nodes, edges, executionStates, selectedNodeId, timerRefs, startTimesRef,
                   pending, uuid, resolved, localStorage, extraction, resolving>>

\* await new Promise(resolve => setTimeout(resolve, delay)) is over
RetryDelayOver ==
    /\ retry.status = "delaying"
    /\ retry' = [retry EXCEPT !.status = "calling"]
    /\ lastOp' = Op("delayOver", retry.calls)
    /\ UNCHANGED <<nodes, edges, executionStates, selectedNodeId, timerRefs, startTimesRef,
                   pending, uuid, resolved, localStorage, extraction, resolving>>

RetryInit ==
    /\ nodes = << >>
    /\ edges = << >>
    /\ executionStates = << >>
    /\ selectedNodeId = NoNode
    /\ timerRefs = {}
    /\ startTimesRef = {}
    /\ pending = << >>
    /\ uuid = 0
    /\ resolved = << >>
    /\ lastOp = Op("init", 0)
    /\ \E script \in Scripts : retry = RetryStart(script)
    /\ localStorage = EmptyStorage
    /\ extraction = NoExtraction
    /\ resolving = NoResolving

RetryNext == RetryAttempt \/ RetryDelayOver

SpecRetry == RetryInit /\ [][RetryNext]_vars

Transient(outcome) == outcome.kind = "error" /\ isRetryableError(outcome)
Fatal(outcome)     == outcome.kind = "error" /\ ~isRetryableError(outcome)

RetryOver == retry.status \in {"returned", "thrown"}

\* C11: withRetry on a fn that fails twice with a transient error and then succeeds
\* calls it exactly 3 times and returns its result; on a fn that fails with a
\* non-transient error it calls it exactly once and throws that error; on a fn that
\* keeps failing with transient errors it calls it exactly maxRetries times and throws
\* the last error. It never calls fn more than maxRetries times.
C11_RetryBoundary ==
    /\ retry.status # "idle" => retry.calls <= maxRetries
    /\ RetryOver =>
          /\ (Transient(retry.script[1]) /\ Transient(retry.script[2])
                /\ retry.script[3].kind = "ok") =>
                   /\ retry.status = "returned" /\ retry.calls = 3
                   /\ retry.result = retry.script[3].value
          /\ Fatal(retry.script[1]) =>
                   /\ retry.status = "thrown" /\ retry.calls = 1
                   /\ retry.error = retry.script[1]
          /\ (\A i \in 1..maxRetries : Transient(retry.script[i])) =>
                   /\ retry.status = "thrown" /\ retry.calls = maxRetries
                   /\ retry.error = retry.script[maxRetries]

\* C11 witness: the third call of a fn that failed twice with transient errors has
\* returned
C11_Witness ==
    /\ retry.status = "returned" /\ retry.calls = 3
    /\ Transient(retry.script[1]) /\ Transient(retry.script[2])
    /\ lastOp = Op("attempt", 3)

----------------------------------------------------------------------------
(* Bibliography pre-processing: extractRelevantContent *)

ChunkErrorMarker == "--- Error processing a chunk from this document ---"

\* what withRetry(generateContent) comes to for one chunk: a response, or the error it
\* throws (a transient one after maxRetries attempts, any other at once)
ChunkOutcomes ==
    {Ok(<<"refs">>), Err("503 Service Unavailable"), Err("API key not valid")}

\* synthesizedFromFile after one chunk: the response text, or in the catch the marker
ChunkText(outcome) ==
    IF outcome.kind = "ok" THEN outcome.value \o <<"\n">> ELSE <<ChunkErrorMarker, "\n">>

RECURSIVE Synthesized(_)
Synthesized(outcomes) ==
    IF outcomes = << >> THEN << >>
    ELSE ChunkText(outcomes[1]) \o Synthesized(Tail(outcomes))

RECURSIVE Trim(_)
\* String.prototype.trim on the right end
Trim(text) ==
    IF text # << >> /\ text[Len(text)] = "\n" THEN Trim(SubSeq(text, 1, Len(text) - 1))
    ELSE text

\* processFile(file): the chunks one after the other, no error leaves it
processFile(file, outcomes) ==
    <<"--- From document: ", file.name, " ---\n">> \o Trim(Synthesized(outcomes)) \o <<NL2>>

\* the errors the catch of processFile has swallowed
Swallowed(outcomes) == SelectSeq(outcomes, LAMBDA o : o.kind = "error")

\* the awaited extractRelevantContent of pending[i] resolves, its one file's chunks
\* having come to outcomes: runConfig.Core_Bibliography = bibContent and
\* handleUpdateConfig(nodeId, { Core_Bibliography: bibContent }), then the generation
\* call is dispatched
ExtractionDone(i, outcomes) ==
    /\ pending[i].stage = "bibliography"
    /\ Len(pending[i].files) = 1
    /\ Len(outcomes) = pending[i].files[1].chunks
    /\ nodes' = handleUpdateConfig(nodes, pending[i].node,
                    [Core_Bibliography |-> processFile(pending[i].files[1], outcomes)])
    /\ pending' = [pending EXCEPT ![i].stage = "generation",
                                  ![i].errors = Swallowed(outcomes)]
    /\ lastOp' = Op("extracted", pending[i].node)
    /\ resolved' = << >>
    /\ UNCHANGED <<edges, executionStates, selectedNodeId, timerRefs, startTimesRef, uuid,
                   retry, localStorage, extraction, resolving>>

MaxChunks == 2   \* chunks of the uploaded file (chunkText cuts at 100000 characters)

FileData(chunks) == [name |-> "paper.pdf", chunks |-> chunks]

\* One chapter node on the canvas, a bibliography file already uploaded to it
ExtractInit ==
    /\ \E chunks \in 1..MaxChunks :
          nodes = (1 :> [NewNode("CHAPTER_GENERATION") EXCEPT
                            !.config.Core_Bibliography_Files = <<FileData(chunks)>>])
    /\ edges = << >>
    /\ executionStates = (1 :> getInitialExecutionState)
    /\ selectedNodeId = 1
    /\ timerRefs = {}
    /\ startTimesRef = {}
    /\ pending = << >>
    /\ uuid = 1
    /\ resolved = << >>
    /\ lastOp = Op("init", 0)
    /\ retry = NoRetry
    /\ localStorage = EmptyStorage
    /\ extraction = NoExtraction
    /\ resolving = NoResolving

ExtractNext ==
    \/ \E id \in DOMAIN nodes : RunEnabled(id) /\ handleRunNode(id)
    \/ \E i \in 1..Len(pending) : \E n \in 1..MaxChunks :
          \E outcomes \in [1..n -> ChunkOutcomes] : ExtractionDone(i, outcomes)
    \/ \E i \in 1..Len(pending) : \E responseText \in ResponseTexts :
          SettleSuccess(i, responseText)
    \/ \E i \in 1..Len(pending) : \E message \in ErrorMessages : SettleError(i, message)
    \/ \E id \in timerRefs : TimerTick(id)

SpecExtract == ExtractInit /\ [][ExtractNext]_vars

\* the calls in flight for node id
CallsOf(id) == {i \in 1..Len(pending) : pending[i].node = id}

BibliographyOf(nodeMap, id) == nodeMap[id].config.Core_Bibliography

\* C13: a non-transient error of a chunk-level extraction call ends the run in ERROR:
\* the step that ends the pre-processing with such an error leaves the node's stored
\* bibliography as it was, and a run that met such an error never settles into
\* COMPLETED or AWAITING_USER_ACTION.
C13_ExtractionErrorEndsRun ==
    [][ /\ lastOp'.op = "extracted" =>
              \A i \in CallsOf(lastOp'.a) :
                  (\E e \in 1..Len(pending'[i].errors) : Fatal(pending'[i].errors[e]))
                  => BibliographyOf(nodes', lastOp'.a) = BibliographyOf(nodes, lastOp'.a)
        /\ lastOp'.op = "settled" =>
              \A i \in CallsOf(lastOp'.a) :
                  (\E e \in 1..Len(pending[i].errors) : Fatal(pending[i].errors[e]))
                  => executionStates'[lastOp'.a].workflowState
                         \notin {"COMPLETED", "AWAITING_USER_ACTION"} ]_vars

----------------------------------------------------------------------------
(* Timers: the handlers themselves, with no button of the interface in the way, so
   that calls on one node overlap *)

MaxTimerUuid == 3

\* one node added to the canvas, and selected by handleAddNode
TimerInit ==
    /\ nodes = (1 :> NewNode("CHAPTER_GENERATION"))
    /\ edges = << >>
    /\ executionStates = (1 :> getInitialExecutionState)
    /\ selectedNodeId = 1
    /\ timerRefs = {}
    /\ startTimesRef = {}
    /\ pending = << >>
    /\ uuid = 1
    /\ resolved = << >>
    /\ lastOp = Op("init", 0)
    /\ retry = NoRetry
    /\ localStorage = EmptyStorage
    /\ extraction = NoExtraction
    /\ resolving = NoResolving

TimerNext ==
    \/ \E id \in DOMAIN nodes : handleDeleteNode(id)
    \/ \E id \in DOMAIN nodes : handleRunNode(id)
    \/ \E m \in UserMessages : handleContinueNode(m) /\ uuid' <= MaxTimerUuid
    \/ \E id \in timerRefs : TimerTick(id)
    \/ \E i \in 1..Len(pending), r \in ResponseTexts :
          SettleSuccess(i, r) /\ uuid' <= MaxTimerUuid
    \/ \E i \in 1..Len(pending), m \in ErrorMessages : SettleError(i, m)
    \/ resetProject

SpecTimer == TimerInit /\ [][TimerNext]_vars

\* C14: the timer of a node is running when a run or a continue on it has been
\* dispatched and is stopped, its start time cleared, when a call on it settles with a
\* response or an error; whenever no call is in flight for a node no interval is active
\* for it, also after overlapping calls on the node, deleteNode and resetProject.
C14_TimerDiscipline ==
    /\ [](\A id \in timerRefs \cup startTimesRef : CallsOf(id) # {})
    /\ [][ /\ lastOp'.op \in {"runNode", "continueNode"} =>
                 /\ lastOp'.a \in timerRefs' /\ lastOp'.a \in startTimesRef'
                 /\ Len(pending') = Len(pending) + 1
                 /\ pending'[Len(pending')].node = lastOp'.a
           /\ lastOp'.op \in {"settled", "failed"} =>
                 lastOp'.a \notin timerRefs' \cup startTimesRef' ]_vars

\* two calls on a node overlap, the node is removed, the first call settles with a
\* response and the second with an error
C14_Witness ==
    /\ lastOp.op = "failed"
    /\ lastOp.a \notin DOMAIN nodes
    /\ lastOp.a \in DOMAIN executionStates
    /\ Len(executionStates[lastOp.a].messages) = 2
    /\ executionStates[lastOp.a].workflowState = "ERROR"
    /\ Len(executionStates[lastOp.a].logs) = 1
    /\ pending = << >>
    /\ timerRefs = {}

----------------------------------------------------------------------------
(* Persistence: the debounced save effect and a storage that throws above its quota *)

OversizeLimit == 500

BulkChars == 600   \* the length of the one long text of the canvases below

Bulk == "<a long text>"

Sentinel == "[CONTENT_CLEARED_TO_SAVE_SPACE]"

\* String.prototype.length, a token being one character unless it stands for more
TokenChars(token) ==
    IF token = Bulk THEN BulkChars ELSE IF token = Sentinel THEN 31 ELSE 1

RECURSIVE Chars(_)
Chars(text) == IF text = << >> THEN 0 ELSE TokenChars(text[1]) + Chars(Tail(text))

RECURSIVE Sum(_)
Sum(numbers) == IF numbers = << >> THEN 0 ELSE numbers[1] + Sum(Tail(numbers))

RECURSIVE Keys(_)
\* Object.keys, as a sequence
Keys(S) == IF S = {} THEN << >> ELSE <<Min(S)>> \o Keys(S \ {Min(S)})

FileKeys == {"Source_B_Files", "Core_Bibliography_Files"}

HeavyKeys == {"Core_Bibliography", "Source_B_Content", "Draft_Chapter_Text",
              "Red_Team_Review_Text", "Chapter_Outline"}

TextKeys == {"Target_Word_Count", "Output_Language", "Chapter_Title", "Chapter_Subtitle",
             "Additional_Instructions"} \cup HeavyKeys

\* the length of JSON.stringify of a file: its content, a chunk being 100000 characters
FileChars(file) == 100000 * file.chunks

ConfigChars(config) ==
    Chars(config.Target_Word_Count) + Chars(config.Output_Language)
    + Chars(config.Chapter_Title) + Chars(config.Chapter_Subtitle)
    + Chars(config.Additional_Instructions) + Chars(config.Core_Bibliography)
    + Chars(config.Source_B_Content) + Chars(config.Draft_Chapter_Text)
    + Chars(config.Red_Team_Review_Text) + Chars(config.Chapter_Outline)
    + Sum(Map(config.Source_B_Files, FileChars))
    + Sum(Map(config.Core_Bibliography_Files, FileChars))

NodeChars(node) == 1 + Chars(node.label) + ConfigChars(node.config)

MessageChars(message) == 1 + Chars(message.content)

VersionChars(version) == 1 + Chars(version.content)

SectionChars(section) ==
    1 + Chars(section.title) + Sum(Map(section.versions, VersionChars))

StateChars(state) ==
    1 + Sum(Map(state.messages, MessageChars)) + Sum(Map(state.logs, Chars))
    + Sum(Map(state.documentSections, SectionChars))

NodesChars(nodeMap) == Sum(Map(Keys(DOMAIN nodeMap), LAMBDA k : NodeChars(nodeMap[k])))

StatesChars(states) == Sum(Map(Keys(DOMAIN states), LAMBDA k : 1 + StateChars(states[k])))

\* JSON.stringify(blob).length, up to the punctuation
JsonChars(blob) ==
    NodesChars(blob.nodes) + Len(blob.edges) + StatesChars(blob.executionStates)

\* whether localStorage.setItem(LOCAL_STORAGE_KEY, JSON.stringify(blob)) throws
Throws(storage, blob) == JsonChars(blob) > storage.quota

fullState(nodeMap, edgeSeq, states) ==
    [nodes |-> nodeMap, edges |-> edgeSeq, executionStates |-> states]

reducedExecutionStates(states) == [k \in DOMAIN states |-> getInitialExecutionState]

tier2State(nodeMap, edgeSeq, states) ==
    fullState(nodeMap, edgeSeq, reducedExecutionStates(states))

Cleared(text) == IF Chars(text) > OversizeLimit THEN <<Sentinel>> ELSE text

minimalConfig(config) ==
    [key \in DOMAIN config |->
        IF key \in HeavyKeys THEN Cleared(config[key])
        ELSE IF key \in FileKeys THEN << >>
        ELSE config[key]]

minimalNodes(nodeMap) ==
    [k \in DOMAIN nodeMap |-> [nodeMap[k] EXCEPT !.config = minimalConfig(@)]]

tier3State(nodeMap, edgeSeq, states) ==
    fullState(minimalNodes(nodeMap), edgeSeq, reducedExecutionStates(states))

\* the tier whose write went through, 4 when the third write threw as well
SavedTier(storage, nodeMap, edgeSeq, states) ==
    IF ~Throws(storage, fullState(nodeMap, edgeSeq, states)) THEN 1
    ELSE IF ~Throws(storage, tier2State(nodeMap, edgeSeq, states)) THEN 2
    ELSE IF ~Throws(storage, tier3State(nodeMap, edgeSeq, states)) THEN 3
    ELSE 4

\* saveState: setItem of the full state, in its catch of the second tier, in the catch
\* of that of the third, whose catch only reports
saveState(storage, nodeMap, edgeSeq, states) ==
    IF ~Throws(storage, fullState(nodeMap, edgeSeq, states))
    THEN [storage EXCEPT !.item = Item(fullState(nodeMap, edgeSeq, states))]
    ELSE IF ~Throws(storage, tier2State(nodeMap, edgeSeq, states))
    THEN [storage EXCEPT !.item = Item(tier2State(nodeMap, edgeSeq, states))]
    ELSE IF ~Throws(storage, tier3State(nodeMap, edgeSeq, states))
    THEN [storage EXCEPT !.item = Item(tier3State(nodeMap, edgeSeq, states))]
    ELSE storage

\* the timeout of the save effect fires; the id of the step is the number of writes tried
SaveState ==
    /\ localStorage' = saveState(localStorage, nodes, edges, executionStates)
    /\ lastOp' = Op("saveState",
                    Min({3, SavedTier(localStorage, nodes, edges, executionStates)}))
    /\ UNCHANGED <<nodes, edges, executionStates, selectedNodeId, timerRefs, startTimesRef,
                   pending, uuid, resolved, retry, extraction, resolving>>

ConfigEdits ==
    { [Core_Bibliography |-> << >>], [Core_Bibliography |-> <<"refs">>],
      [Core_Bibliography |-> <<Bulk>>], [Chapter_Title |-> <<Bulk>>],
      [Core_Bibliography_Files |-> <<FileData(1)>>] }

\* the configurator edits a field of the selected node: handleUpdateConfig
EditConfig(newConfig) ==
    /\ selectedNodeId \in DOMAIN nodes
    /\ nodes' = handleUpdateConfig(nodes, selectedNodeId, newConfig)
    /\ lastOp' = Op("updateConfig", selectedNodeId)
    /\ resolved' = << >>
    /\ UNCHANGED <<edges, executionStates, selectedNodeId, timerRefs, startTimesRef,
                   pending, uuid, retry, localStorage, extraction, resolving>>

Quotas == {0, 10, 50, 700, 200000}

\* two connected nodes, the first one run once with a short or a long reply, and a
\* storage with nothing in it yet
SaveInit ==
    /\ nodes = (1 :> CompletedNode("CHAPTER_GENERATION", [Chapter_Title |-> <<"T">>])) @@
               (2 :> NewNode("CHAPTER_GENERATION"))
    /\ edges = <<Edge(1, 2)>>
    /\ \E reply \in {<<"reply">>, <<Bulk>>} :
          executionStates = (1 :> CompletedState(3, 4, reply, << >>)) @@
                            (2 :> getInitialExecutionState)
    /\ selectedNodeId = 2
    /\ timerRefs = {}
    /\ startTimesRef = {}
    /\ pending = << >>
    /\ uuid = 4
    /\ resolved = << >>
    /\ lastOp = Op("init", 0)
    /\ retry = NoRetry
    /\ \E quota \in Quotas : localStorage = [quota |-> quota, item |-> NoItem]
    /\ extraction = NoExtraction
    /\ resolving = NoResolving

SaveNext ==
    \/ SaveState
    \/ \E newConfig \in ConfigEdits : EditConfig(newConfig)
    \/ \E id \in DOMAIN nodes : handleDeleteNode(id)
    \/ resetProject

SpecSave == SaveInit /\ [][SaveNext]_vars

Fits(blob) == JsonChars(blob) <= localStorage.quota

AllEmpty(states) == \A k \in DOMAIN states : states[k] = getInitialExecutionState

\* a config with every text longer than the threshold replaced by the sentinel and the
\* file arrays cleared
Blanked(config) ==
    [key \in DOMAIN config |->
        IF key \in TextKeys /\ Chars(config[key]) > OversizeLimit THEN <<Sentinel>>
        ELSE IF key \in FileKeys THEN << >>
        ELSE config[key]]

\* C15: a save tries the tiers in order, each after the write before it threw, and the
\* item stored is the first tier whose write does not throw: the full state; else the
\* same nodes and edges with every execution state reset under the same keys; else that
\* with every config text over the threshold replaced by the sentinel and the file
\* arrays cleared; when all three writes throw the item is left as it was.
C15_DegradationTiers ==
    [][lastOp'.op = "saveState" =>
          LET stored == localStorage'.item
              full == fullState(nodes, edges, executionStates)
              second == fullState(nodes, edges,
                                  [k \in DOMAIN executionStates |-> getInitialExecutionState])
              third == fullState([k \in DOMAIN nodes |->
                                     [nodes[k] EXCEPT !.config = Blanked(@)]],
                                 edges, second.executionStates)
          IN  /\ localStorage'.quota = localStorage.quota
              /\ Fits(full) => stored = <<full>> /\ lastOp'.a = 1
              /\ (~Fits(full) /\ Fits(second)) =>
                    /\ Len(stored) = 1
                    /\ stored[1].nodes = nodes /\ stored[1].edges = edges
                    /\ DOMAIN stored[1].executionStates = DOMAIN executionStates
                    /\ AllEmpty(stored[1].executionStates)
                    /\ lastOp'.a = 2
              /\ (~Fits(full) /\ ~Fits(second)) =>
                    /\ lastOp'.a = 3
                    /\ stored = IF Fits(third) THEN <<third>> ELSE localStorage.item ]_vars

----------------------------------------------------------------------------
(* Runs on two nodes at once: chapter 2 feeds node 1, the project as loaded from the
   storage, nothing selected yet *)

MaxCrossUuid == 4

CrossSnapshots ==
    { [ nodes  |-> (1 :> ConfiguredNode(type, << >>)) @@
                   (2 :> CompletedNode("CHAPTER_GENERATION",
                                       [Core_Bibliography |-> <<"B">>])),
        edges  |-> << Edge(2, 1) >>,
        states |-> (1 :> getInitialExecutionState) @@
                   (2 :> CompletedState(11, 12, <<"D1", "D2">>, draft)) ]
      : type \in {"RED_TEAM_REVIEW", "CHAPTER_GENERATION"}, draft \in DraftLayouts }

CrossInit ==
    /\ \E g \in CrossSnapshots :
          /\ nodes = g.nodes
          /\ edges = g.edges
          /\ executionStates = g.states
    /\ selectedNodeId = NoNode
    /\ timerRefs = {}
    /\ startTimesRef = {}
    /\ pending = << >>
    /\ uuid = 2
    /\ resolved = << >>
    /\ lastOp = Op("init", 0)
    /\ retry = NoRetry
    /\ localStorage = EmptyStorage
    /\ extraction = NoExtraction
    /\ resolving = NoResolving

CrossNext ==
    \/ \E id \in DOMAIN nodes : SelectNode(id)
    \/ \E id \in DOMAIN nodes : RunEnabled(id) /\ handleRunNode(id)
    \/ \E m \in UserMessages :
          ContinueEnabled /\ handleContinueNode(m) /\ uuid' <= MaxCrossUuid
    \/ \E id \in timerRefs : TimerTick(id)
    \/ \E i \in 1..Len(pending), r \in ResponseTexts :
          SettleSuccess(i, r) /\ uuid' <= MaxCrossUuid
    \/ \E i \in 1..Len(pending), m \in ErrorMessages : SettleError(i, m)

SpecCross == CrossInit /\ [][CrossNext]_vars

\* the calls in flight for node id, in the order they were made
CallsFor(calls, id) == SelectSeq(calls, LAMBDA call : call.node = id)

RunSteps == {"runNode", "continueNode", "tick", "settled", "failed"}

C18_WriteBackOnSuccess ==
    [][ /\ lastOp'.op = "select" => nodes' = nodes
        /\ lastOp'.op = "failed" =>
              \A i \in CallsOf(lastOp'.a) :
                  pending[i].kind = "run" =>
                      nodes'[lastOp'.a].config = pending[i].config ]_vars

----------------------------------------------------------------------------
(* The message log of one node under Run and continue as the interface offers them *)

MaxLogUuid == 7

LogNext ==
    \/ \E id \in DOMAIN nodes : RunEnabled(id) /\ handleRunNode(id)
    \/ \E m \in UserMessages :
          ContinueEnabled /\ handleContinueNode(m) /\ uuid' <= MaxLogUuid
    \/ \E id \in timerRefs : TimerTick(id)
    \/ \E i \in 1..Len(pending), r \in ResponseTexts :
          SettleSuccess(i, r) /\ uuid' <= MaxLogUuid
    \/ \E i \in 1..Len(pending), m \in ErrorMessages : SettleError(i, m)

SpecLog == TimerInit /\ [][LogNext]_vars

MessagesOf(states, id) == IF id \in DOMAIN states THEN states[id].messages ELSE << >>

IsPrefix(s, t) == Len(s) <= Len(t) /\ SubSeq(t, 1, Len(s)) = s

CleanedTexts == {processResponseText(r).cleanedText : r \in ResponseTexts}

\* C17: the step that settles a run with a response appends to the node's log one
\* hidden user message holding the prompt and after it one visible assistant message
\* holding the cleaned response, and on every step the log each node had is a prefix of
\* the log it has afterwards.
C17_LogAppendOnly ==
    [][ /\ \A id \in DOMAIN executionStates :
              IsPrefix(executionStates[id].messages, MessagesOf(executionStates', id))
        /\ (lastOp'.op = "settled" /\ pending[1].kind = "run") =>
              LET before == MessagesOf(executionStates, lastOp'.a)
                  after  == MessagesOf(executionStates', lastOp'.a)
              IN  /\ Len(after) = Len(before) + 2
                  /\ after[Len(before) + 1].role = "user"
                  /\ after[Len(before) + 1].isHidden
                  /\ after[Len(before) + 1].content = UserPrompt
                  /\ after[Len(before) + 2].role = "assistant"
                  /\ ~after[Len(before) + 2].isHidden
                  /\ after[Len(before) + 2].content \in CleanedTexts ]_vars

\* a second run of the node settles after a continue: six messages, the last two its own
C17_Witness ==
    /\ lastOp = Op("settled", 1)
    /\ Len(executionStates[1].messages) = 6
    /\ executionStates[1].messages[3].role = "user"
    /\ ~executionStates[1].messages[3].isHidden
    /\ executionStates[1].messages[5].isHidden
    /\ executionStates[1].messages[6].role = "assistant"

----------------------------------------------------------------------------
(* Progress of a call: the run and continue of the interface, each awaiting one service
   call that goes through withRetry, on one node that can be deselected, deleted or
   reset while the call is in flight *)

MaxLiveUuid == 4

\* the outcomes a service call can have, attempt after attempt: transient errors up to
\* some attempt, and from then on a response or an error that is not transient (what
\* comes after the outcome that ends the loop is never asked for)
LiveScripts ==
    {[i \in 1..MaxCalls |-> IF i <= k THEN Err("503 Service Unavailable") ELSE final] :
        k \in 0..MaxCalls, final \in {Ok("response"), Err("API key not valid")}}

\* the service function called by the handler enters withRetry
LiveCall(script) ==
    /\ pending # << >>
    /\ retry.status = "idle"
    /\ retry' = RetryStart(script)
    /\ lastOp' = Op("call", pending[1].node)
    /\ UNCHANGED <<nodes, edges, executionStates, selectedNodeId, timerRefs, startTimesRef,
                   pending, uuid, resolved, localStorage, extraction, resolving>>

\* the awaited service call has returned: the handler commits the response
LiveSettle == \E r \in ResponseTexts : retry.status = "returned" /\ SettleSuccess(1, r)

\* the awaited service call has thrown: the handler's catch
LiveFail == \E m \in ErrorMessages : retry.status = "thrown" /\ SettleError(1, m)

LiveNext ==
    \/ \E id \in DOMAIN nodes \cup {NoNode} : SelectNode(id)
    \/ \E id \in DOMAIN nodes :
          /\ RunEnabled(id) /\ pending = << >> /\ uuid + 2 <= MaxLiveUuid
          /\ Len(executionStates[id].logs) < MaxLogs
          /\ handleRunNode(id)
    \/ \E m \in UserMessages :
          /\ ContinueEnabled /\ pending = << >> /\ uuid + 2 <= MaxLiveUuid
          /\ handleContinueNode(m)
    \/ \E id \in timerRefs : TimerTick(id)
    \/ \E script \in LiveScripts : LiveCall(script)
    \/ RetryAttempt
    \/ RetryDelayOver
    \/ LiveSettle
    \/ LiveFail
    \/ \E id \in DOMAIN nodes : handleDeleteNode(id)
    \/ resetProject

\* every service call settles, every delay of withRetry runs out, and a settled promise
\* resumes the handler that awaits it
LiveFairness ==
    /\ WF_vars(\E script \in LiveScripts : LiveCall(script))
    /\ WF_vars(RetryAttempt)
    /\ WF_vars(RetryDelayOver)
    /\ WF_vars(LiveSettle)
    /\ WF_vars(LiveFail)

SpecLive == TimerInit /\ [][LiveNext]_vars /\ LiveFairness

Processing(id) ==
    id \in DOMAIN executionStates /\ executionStates[id].workflowState = "PROCESSING"

\* C21: a node that a runNode or a continueNode has put in PROCESSING is eventually in
\* AWAITING_USER_ACTION, COMPLETED or ERROR, when every service call settles: withRetry
\* gives up after maxRetries attempts, and the handler resumes whether or not the node is
\* still selected.
C21_EventuallySettles ==
    Processing(1) ~> (1 \in DOMAIN executionStates
                        /\ executionStates[1].workflowState \in Settled)

\* the call of a node deselected while in flight has settled on the third attempt
C21_Witness ==
    /\ lastOp = Op("settled", 1)
    /\ selectedNodeId = NoNode
    /\ 1 \in DOMAIN nodes
    /\ retry.status = "idle" /\ retry.calls = 3
    /\ executionStates[1].workflowState \in Settled

----------------------------------------------------------------------------
(* Re-runs of a node fed by a context library: node 2 is a context-processing node
   that has completed, node 1 its target *)

RerunSnapshots ==
    { [ nodes  |-> (1 :> ConfiguredNode(type, << >>)) @@
                   (2 :> [CompletedNode("CONTEXT_PROCESSING", << >>) EXCEPT !.label = label]),
        edges  |-> << Edge(2, 1) >>,
        states |-> (1 :> getInitialExecutionState) @@
                   (2 :> CompletedState(11, 12, <<"Extract">>, sections)) ]
      : type \in {"CHAPTER_GENERATION", "ACADEMIC_NOTE_GENERATION"},
        label \in {<< >>, <<"My", " ", "Library">>},
        sections \in {<< >>, << Section(21, 1, 22, 12, <<"S1">>) >>} }

RerunInit ==
    /\ \E g \in RerunSnapshots :
          /\ nodes = g.nodes
          /\ edges = g.edges
          /\ executionStates = g.states
    /\ selectedNodeId = NoNode
    /\ timerRefs = {}
    /\ startTimesRef = {}
    /\ pending = << >>
    /\ uuid = 2
    /\ resolved = << >>
    /\ lastOp = Op("init", 0)
    /\ retry = NoRetry
    /\ localStorage = EmptyStorage
    /\ extraction = NoExtraction
    /\ resolving = NoResolving

SpecRerun == RerunInit /\ [][CrossNext]_vars

\* the Core_Bibliography of the effective config of node n
EffectiveBibliography(nodeMap, edgeSeq, states, n) ==
    getUpstreamContext(nodeMap, edgeSeq, states, n).effectiveConfig.Core_Bibliography

\* the number of context_source blocks in text
Blocks(text) == Cardinality({i \in 1..Len(text) : text[i] = ContextOpen})

\* the edges into n whose source is an existing context-processing node
LibraryEdges(nodeMap, edgeSeq, states, n) ==
    {i \in DOMAIN edgeSeq :
        /\ edgeSeq[i].target = n
        /\ ~Dangling(nodeMap, states, edgeSeq[i])
        /\ nodeMap[edgeSeq[i].source].type = "CONTEXT_PROCESSING"}

\* nothing upstream of node 1 changes in the step
UpstreamUnchanged ==
    /\ edges' = edges
    /\ nodes'[2] = nodes[2]
    /\ ContentToUse(executionStates'[2]) = ContentToUse(executionStates[2])

\* C22: re-runs are stable: as long as nothing upstream of the node changes, every
\* step, a run that persists the resolved bibliography included, leaves the effective
\* Core_Bibliography of the node as it was, and in every state each upstream
\* context_source block appears in it exactly once.
C22_RerunStable ==
    /\ [](Blocks(EffectiveBibliography(nodes, edges, executionStates, 1))
            = Cardinality(LibraryEdges(nodes, edges, executionStates, 1)))
    /\ [][UpstreamUnchanged =>
            EffectiveBibliography(nodes', edges', executionStates', 1)
              = EffectiveBibliography(nodes, edges, executionStates, 1)]_vars

----------------------------------------------------------------------------
(* A project definition at the head of a chain: project definition 1 -> outline 2 ->
   chapter 3, alone and with the edge 1 -> 3 added before or after *)

ProjectChainSnapshots ==
    { [ nodes  |-> (1 :> ConfiguredNode("PROJECT_DEFINITION",
                            [Chapter_Title |-> <<"T">>, Chapter_Subtitle |-> subtitle,
                             Target_Word_Count |-> <<"5000">>,
                             Output_Language |-> <<"Greek">>])) @@
                   (2 :> CompletedNode("OUTLINE_GENERATION", [Chapter_Title |-> title])) @@
                   (3 :> ConfiguredNode("CHAPTER_GENERATION", [Chapter_Subtitle |-> own])),
        edges  |-> es,
        states |-> (1 :> getInitialExecutionState) @@
                   (2 :> CompletedState(11, 12, <<"O">>, << >>)) @@
                   (3 :> getInitialExecutionState) ]
      : es \in { << Edge(1, 2), Edge(2, 3) >>,
                 << Edge(1, 2), Edge(2, 3), Edge(1, 3) >>,
                 << Edge(1, 3), Edge(1, 2), Edge(2, 3) >> },
        subtitle \in {<< >>, <<"S">>}, title \in {<< >>, <<"Own">>},
        own \in {<< >>, <<"OwnSub">>} }

ProjectChainInit ==
    /\ \E g \in ProjectChainSnapshots :
          /\ nodes = g.nodes
          /\ edges = g.edges
          /\ executionStates = g.states
    /\ selectedNodeId = NoNode
    /\ timerRefs = {}
    /\ startTimesRef = {}
    /\ pending = << >>
    /\ uuid = MaxUuid
    /\ resolved = << >>
    /\ lastOp = Op("init", 0)
    /\ retry = NoRetry
    /\ localStorage = EmptyStorage
    /\ extraction = NoExtraction
    /\ resolving = NoResolving

SpecProjectChain == ProjectChainInit /\ [][ResolveNext]_vars

RECURSIVE ReachableIn(_, _, _)
\* the nodes reached from the set S through at most k further edges
ReachableIn(edgeSeq, S, k) ==
    IF k = 0 THEN S
    ELSE ReachableIn(edgeSeq,
                     S \cup {edgeSeq[i].target : i \in {j \in DOMAIN edgeSeq :
                                                           edgeSeq[j].source \in S}},
                     k - 1)

\* the nodes reachable from p through one or more edges
Downstream(edgeSeq, p) ==
    ReachableIn(edgeSeq,
                {edgeSeq[i].target : i \in {j \in DOMAIN edgeSeq : edgeSeq[j].source = p}},
                Len(edgeSeq))

MetadataFields == {"Chapter_Title", "Chapter_Subtitle", "Target_Word_Count", "Output_Language"}

\* C23: every node reachable from a project definition through one or more edges
\* resolves to the project definition's title, subtitle, target word count and output
\* language, whatever its own values are.
C23_MetadataDownstream ==
    \A p \in DOMAIN nodes, t \in DOMAIN nodes :
        (nodes[p].type = "PROJECT_DEFINITION" /\ t \in Downstream(edges, p)
            /\ JustResolved(t)) =>
            \A f \in MetadataFields : Latest.effectiveConfig[f] = nodes[p].config[f]

----------------------------------------------------------------------------
(* Metadata and content: target 1, chapter 2 that has completed, project definition 3
   that has or has not been run, connected on the canvas in any order *)

FrameSnapshots ==
    { [ nodes  |-> (1 :> ConfiguredNode(type, << >>)) @@
                   (2 :> CompletedNode("CHAPTER_GENERATION",
                                       [Core_Bibliography |-> <<"B">>])) @@
                   (3 :> ConfiguredNode("PROJECT_DEFINITION",
                            [Chapter_Title |-> <<"T">>,
                             Additional_Instructions |-> <<"I1">>])),
        states |-> (1 :> getInitialExecutionState) @@
                   (2 :> CompletedState(11, 12, <<"D">>, << >>)) @@
                   (3 :> project) ]
      : type \in {"RED_TEAM_REVIEW", "CHAPTER_GENERATION", "ACADEMIC_NOTE_GENERATION"},
        project \in {getInitialExecutionState, CompletedState(13, 14, <<"Brief">>, << >>)} }

FrameInit ==
    /\ \E g \in FrameSnapshots :
          /\ nodes = g.nodes
          /\ executionStates = g.states
    /\ edges = << >>
    /\ selectedNodeId = 3
    /\ timerRefs = {}
    /\ startTimesRef = {}
    /\ pending = << >>
    /\ uuid = 3
    /\ resolved = << >>
    /\ lastOp = Op("init", 0)
    /\ retry = NoRetry
    /\ localStorage = EmptyStorage
    /\ extraction = NoExtraction
    /\ resolving = NoResolving

SpecFrame == FrameInit /\ [][GraphNext]_vars

ContentFields ==
    {"Draft_Chapter_Text", "Chapter_Outline", "Red_Team_Review_Text", "Core_Bibliography",
     "Source_B_Content"}

\* C24: a connect that adds an edge from a project definition to a target leaves every
\* content field of the target's effective config (draft, outline, review directives,
\* bibliography, secondary-source content) as it resolved without that edge, whatever
\* edges the target has already and whether or not the project definition has produced
\* content.
C24_MetadataFrame ==
    [][\A p \in DOMAIN nodes, t \in DOMAIN nodes :
          (lastOp' = Op("connect", 10 * p + t) /\ nodes[p].type = "PROJECT_DEFINITION"
              /\ Len(edges') = Len(edges) + 1) =>
             \A f \in ContentFields :
                getUpstreamContext(nodes', edges', executionStates', t).effectiveConfig[f]
                  = getUpstreamContext(nodes, edges, executionStates, t).effectiveConfig[f]
      ]_vars

----------------------------------------------------------------------------
(* extractRelevantContent: the batch loop over the files and, per file, processFile's
   loop over the chunks, each chunk one withRetry(generateContent) *)

BATCH_SIZE == 3

MaxFiles == 4   \* files handed to one extractRelevantContent call

\* tasks.slice(i, i + BATCH_SIZE) with every file of the call in one batch
Batch_All(files, i) == (i + 1)..files

\* tasks.slice(i, i + BATCH_SIZE): the files of the batch that starts behind file i
Batch(files, i) == (i + 1)..(IF i + BATCH_SIZE < files THEN i + BATCH_SIZE ELSE files)

\* processFile up to its first await: the request for the first chunk is out
FirstRequest == [chunk |-> 1, phase |-> "request", attempt |-> 0]

\* batch.map(t => t()): every task of the batch is started
StartBatch(files, i) == [f \in Batch(files, i) |-> FirstRequest]

\* extractRelevantContent(files, ...) up to its first await; every file has chunks chunks
ExtractStart(files, chunks) ==
    [status |-> "running", files |-> files, chunks |-> chunks, i |-> 0,
     tasks |-> StartBatch(files, 0)]

\* the generateContent request of file f settles: with a response, or with an error that
\* withRetry retries after a delay or throws into the catch of processFile
ChunkSettles(f, outcome) ==
    /\ extraction.status = "running"
    /\ f \in DOMAIN extraction.tasks
    /\ extraction.tasks[f].phase = "request"
    /\ extraction' = [extraction EXCEPT !.tasks[f] =
          IF outcome.kind = "ok" \/ GiveUp(@.attempt + 1, outcome)
          THEN [@ EXCEPT !.phase = "delay"]
          ELSE [@ EXCEPT !.phase = "backoff", !.attempt = @ + 1]]
    /\ lastOp' = Op("chunkSettled", f)
    /\ UNCHANGED <<nodes, edges, executionStates, selectedNodeId, timerRefs, startTimesRef,
                   pending, uuid, resolved, retry, localStorage, resolving>>

\* the delay of withRetry is over: fn is called again
ChunkBackoffOver(f) ==
    /\ extraction.status = "running"
    /\ f \in DOMAIN extraction.tasks
    /\ extraction.tasks[f].phase = "backoff"
    /\ extraction' = [extraction EXCEPT !.tasks[f].phase = "request"]
    /\ lastOp' = Op("chunkRetried", f)
    /\ UNCHANGED <<nodes, edges, executionStates, selectedNodeId, timerRefs, startTimesRef,
                   pending, uuid, resolved, retry, localStorage, resolving>>

\* INTER_REQUEST_DELAY is over: the next chunk is requested, or processFile returns
ChunkDelayOver(f) ==
    /\ extraction.status = "running"
    /\ f \in DOMAIN extraction.tasks
    /\ extraction.tasks[f].phase = "delay"
    /\ extraction' = [extraction EXCEPT !.tasks[f] =
          IF @.chunk < extraction.chunks
          THEN [chunk |-> @.chunk + 1, phase |-> "request", attempt |-> 0]
          ELSE [@ EXCEPT !.phase = "returned"]]
    /\ lastOp' = Op("chunkDelayOver", f)
    /\ UNCHANGED <<nodes, edges, executionStates, selectedNodeId, timerRefs, startTimesRef,
                   pending, uuid, resolved, retry, localStorage, resolving>>

\* await Promise.all(batch.map(t => t())) resolves: i += BATCH_SIZE, and the next batch
\* is started or the loop is left
BatchSettles ==
    /\ extraction.status = "running"
    /\ \A f \in DOMAIN extraction.tasks : extraction.tasks[f].phase = "returned"
    /\ extraction' =
          IF extraction.i + BATCH_SIZE < extraction.files
          THEN [extraction EXCEPT !.i = @ + BATCH_SIZE,
                                  !.tasks = StartBatch(extraction.files, extraction.i + BATCH_SIZE)]
          ELSE [extraction EXCEPT !.status = "returned", !.tasks = << >>]
    /\ lastOp' = Op("batchSettled", extraction.i)
    /\ UNCHANGED <<nodes, edges, executionStates, selectedNodeId, timerRefs, startTimesRef,
                   pending, uuid, resolved, retry, localStorage, resolving>>

BatchInit ==
    /\ nodes = << >>
    /\ edges = << >>
    /\ executionStates = << >>
    /\ selectedNodeId = NoNode
    /\ timerRefs = {}
    /\ startTimesRef = {}
    /\ pending = << >>
    /\ uuid = 0
    /\ resolved = << >>
    /\ lastOp = Op("init", 0)
    /\ retry = NoRetry
    /\ localStorage = EmptyStorage
    /\ \E files \in 1..MaxFiles, chunks \in 1..MaxChunks :
          extraction = ExtractStart(files, chunks)
    /\ resolving = NoResolving

BatchNext ==
    \/ \E f \in 1..MaxFiles, outcome \in ChunkOutcomes : ChunkSettles(f, outcome)
    \/ \E f \in 1..MaxFiles : ChunkBackoffOver(f)
    \/ \E f \in 1..MaxFiles : ChunkDelayOver(f)
    \/ BatchSettles

SpecBatch == BatchInit /\ [][BatchNext]_vars

\* the files whose generateContent request is out
InFlight == {f \in DOMAIN extraction.tasks : extraction.tasks[f].phase = "request"}

\* C25: during one extractRelevantContent call at most 3 extraction requests are in
\* flight at any moment: the tasks started are the files of one batch of at most 3,
\* each with at most one request out, and a batch is started only when every task of
\* the batch before it has returned.
C25_BoundedConcurrency ==
    /\ [](extraction.status = "running" =>
            /\ Cardinality(InFlight) <= 3
            /\ DOMAIN extraction.tasks \subseteq (extraction.i + 1)..(extraction.i + 3))
    /\ [][(extraction.status = "running" /\ extraction'.status = "running"
             /\ DOMAIN extraction'.tasks # DOMAIN extraction.tasks) =>
            /\ \A f \in DOMAIN extraction.tasks : extraction.tasks[f].phase = "returned"
            /\ DOMAIN extraction'.tasks \cap DOMAIN extraction.tasks = {}]_vars

\* the fourth file of a call, alone in the second batch, has its second chunk requested
C25_Witness ==
    /\ extraction.status = "running"
    /\ extraction.i = 3
    /\ InFlight = {4}
    /\ extraction.tasks[4].chunk = 2
    /\ lastOp = Op("chunkDelayOver", 4)

----------------------------------------------------------------------------
(* An errored node: one node run and continued as the interface offers, with sections
   added to it and deleted from it *)

MaxErrorUuid == 6

ErrorNext ==
    \/ \E id \in DOMAIN nodes : RunEnabled(id) /\ handleRunNode(id)
    \/ \E m \in UserMessages :
          ContinueEnabled /\ handleContinueNode(m) /\ uuid' <= MaxErrorUuid
    \/ \E i \in 1..Len(pending), r \in ResponseTexts :
          SettleSuccess(i, r) /\ uuid' <= MaxErrorUuid
    \/ \E i \in 1..Len(pending), m \in ErrorMessages : SettleError(i, m)
    \/ \E content \in Contents :
          handleAddSection(uuid, content) /\ uuid' <= MaxErrorUuid
    \/ \E sectionId \in SectionIds(executionStates) : handleDeleteSection(sectionId)

SpecError == TimerInit /\ [][ErrorNext]_vars

\* C26: the step in which a runNode or a continueNode ends in ERROR leaves every
\* message and every document section of the node as it was, a node in ERROR is not
\* shown as running, so that its Run button is enabled, and a runNode on a node in
\* ERROR moves it to PROCESSING.
C26_ErroredNodeKept ==
    /\ [](\A id \in DOMAIN nodes :
             executionStates[id].workflowState = "ERROR" => nodes[id].status # "running")
    /\ [][ /\ (lastOp'.op = "failed" /\ lastOp'.a \in DOMAIN executionStates) =>
                 /\ executionStates'[lastOp'.a].workflowState = "ERROR"
                 /\ executionStates'[lastOp'.a].messages = executionStates[lastOp'.a].messages
                 /\ executionStates'[lastOp'.a].documentSections
                       = executionStates[lastOp'.a].documentSections
           /\ (lastOp'.op = "runNode" /\ lastOp'.a \in DOMAIN executionStates
                 /\ executionStates[lastOp'.a].workflowState = "ERROR") =>
                 executionStates'[lastOp'.a].workflowState = "PROCESSING" ]_vars

\* the node is run again after a continue on it has failed: its log ends with the
\* message of that continue, and the section it had is there
C26_Witness ==
    /\ lastOp = Op("runNode", 1)
    /\ executionStates[1].workflowState = "PROCESSING"
    /\ Len(executionStates[1].messages) = 3
    /\ executionStates[1].messages[3].role = "user"
    /\ ~executionStates[1].messages[3].isHidden
    /\ Len(executionStates[1].documentSections) = 1

----------------------------------------------------------------------------
(* getUpstreamContext pass by pass of its forEach, on graphs that handleConnect has
   built with cycles and self-loops: chapter 1, critique 2, synthesis 3 *)

MaxCycleUuid == 6

\* the edges a pass of the loop adds to those still to visit: the sources of the source
\* of the edge, for a resolver that recursed upstream
Further_Upstream(edgeSeq, edge) == SelectSeq(edgeSeq, LAMBDA e : e.target = edge.source)

\* the edges a pass of the loop adds to those still to visit: none, the loop body calls
\* neither getUpstreamContext nor itself
Further(edgeSeq, edge) == << >>

\* getUpstreamContext(node) up to its forEach: incomingEdges and the accumulators
ResolveBegin(id) ==
    /\ resolving.status # "running"
    /\ id \in DOMAIN nodes
    /\ resolving' = [ status |-> "running", target |-> id,
                      queue  |-> SelectSeq(edges, LAMBDA e : e.target = id),
                      acc    |-> StartContext(nodes[id], executionStates) ]
    /\ lastOp' = Op("resolveBegin", id)
    /\ UNCHANGED <<nodes, edges, executionStates, selectedNodeId, timerRefs, startTimesRef,
                   pending, uuid, resolved, retry, localStorage, extraction>>

\* one pass of incomingEdges.forEach
ResolveEdge ==
    /\ resolving.status = "running"
    /\ resolving.queue # << >>
    /\ resolving' = [resolving EXCEPT
          !.acc   = EdgeStep(@, nodes, edges, Head(resolving.queue),
                             nodes[resolving.target].type),
          !.queue = Further(edges, Head(resolving.queue)) \o Tail(@)]
    /\ lastOp' = Op("resolveEdge", Head(resolving.queue).id)
    /\ UNCHANGED <<nodes, edges, executionStates, selectedNodeId, timerRefs, startTimesRef,
                   pending, uuid, resolved, retry, localStorage, extraction>>

\* the loop is over: the accumulated values are applied and the result returned; the
\* section lists are as the sorts of the passes left them
ResolveReturn ==
    /\ resolving.status = "running"
    /\ resolving.queue = << >>
    /\ resolving' = [ status |-> "returned", target |-> resolving.target,
                      effectiveConfig |-> ResolverResult(resolving.acc).effectiveConfig,
                      upstreamSources |-> ResolverResult(resolving.acc).upstreamSources ]
    /\ executionStates' = resolving.acc.st
    /\ lastOp' = Op("resolveReturn", resolving.target)
    /\ UNCHANGED <<nodes, edges, selectedNodeId, timerRefs, startTimesRef,
                   pending, uuid, resolved, retry, localStorage, extraction>>

CycleInit ==
    /\ nodes = (1 :> CompletedNode("CHAPTER_GENERATION", << >>)) @@
               (2 :> CompletedNode("RED_TEAM_REVIEW", << >>)) @@
               (3 :> NewNode("FINAL_SYNTHESIS"))
    /\ edges = << >>
    /\ \E draft \in DraftLayouts :
          executionStates = (1 :> CompletedState(13, 14, <<"D1", "D2">>, draft)) @@
                            (2 :> CompletedState(15, 16, <<"R">>, << >>)) @@
                            (3 :> getInitialExecutionState)
    /\ selectedNodeId = NoNode
    /\ timerRefs = {}
    /\ startTimesRef = {}
    /\ pending = << >>
    /\ uuid = 3
    /\ resolved = << >>
    /\ lastOp = Op("init", 0)
    /\ retry = NoRetry
    /\ localStorage = EmptyStorage
    /\ extraction = NoExtraction
    /\ resolving = NoResolving

\* handleConnect itself, with no canvas in front of it, and then one resolution
CycleNext ==
    \/ \E source \in DOMAIN nodes, target \in DOMAIN nodes :
          /\ resolving.status = "idle"
          /\ handleConnect(source, target)
          /\ uuid' <= MaxCycleUuid
    \/ \E id \in DOMAIN nodes : resolving.status = "idle" /\ ResolveBegin(id)
    \/ ResolveEdge
    \/ ResolveReturn

\* the passes of a synchronous loop follow one another
SpecCycle == CycleInit /\ [][CycleNext]_vars /\ WF_vars(ResolveEdge) /\ WF_vars(ResolveReturn)

\* node id lies on a cycle of edges, a self-loop included
OnCycle(id) == id \in ReachableIn(edges, {edges[i].target : i \in {j \in DOMAIN edges :
                                                                    edges[j].source = id}},
                                  Len(edges))

\* C27: on every graph, with cycles and self-loops, a getUpstreamContext call returns;
\* the edges its loop visits are incoming edges of the node it resolves, never edges
\* further upstream, and what it returns is what the direct incoming edges, with the
\* one hop behind a critique, give.
C27_ResolverTerminates ==
    /\ (resolving.status = "running") ~> (resolving.status = "returned")
    /\ [](resolving.status = "running" =>
            \A i \in DOMAIN resolving.queue : resolving.queue[i].target = resolving.target)
    /\ [][resolving'.status = "returned" =>
            resolving'.effectiveConfig
               = getUpstreamContext(nodes, edges, executionStates,
                                    resolving'.target).effectiveConfig]_vars

\* the synthesis node has been resolved on the cycle 1 -> 2 -> 3 -> 1
C27_Witness ==
    /\ lastOp = Op("resolveReturn", 3)
    /\ resolving.status = "returned"
    /\ OnCycle(3)
    /\ \E i \in DOMAIN edges : edges[i].source = 2 /\ edges[i].target = 3
    /\ \E i \in DOMAIN edges : edges[i].source = 1 /\ edges[i].target = 2
    /\ Truthy(resolving.effectiveConfig.Red_Team_Review_Text)

----------------------------------------------------------------------------
(* The extra hop of a synthesis node against the critique's own resolution *)

\* critique c feeds synthesis t, has produced content and has an incoming edge
HopTaken(c, t) ==
    /\ nodes[c].type = "RED_TEAM_REVIEW" /\ nodes[t].type = "FINAL_SYNTHESIS"
    /\ c \in SourcesOf(edges, t)
    /\ Truthy(Produced(executionStates, c))
    /\ EdgesInto(edges, c) # {}

\* C28: when a critique feeds a synthesis node, the draft the synthesis node resolves by
\* the extra hop is the Draft_Chapter_Text the critique itself resolves from its
\* incoming edges, also when the critique has several incoming edges and when the
\* draft node's content is in its chat only.
C28_HopMatchesCritique ==
    \A c \in DOMAIN nodes, t \in DOMAIN nodes :
        (HopTaken(c, t) /\ JustResolved(t)) =>
            Latest.effectiveConfig.Draft_Chapter_Text
              = getUpstreamContext(nodes, edges, executionStates, c).effectiveConfig.Draft_Chapter_Text

----------------------------------------------------------------------------
(* A page reload: the calls of the page that is gone are gone with it, and the mount
   effect reads the persisted blob back *)

MaxReloadUuid == 4

\* JSON.parse(saved).field || fallback, and the fallback when nothing is saved
Parsed(storage, field, fallback) ==
    IF storage.item = NoItem THEN fallback ELSE storage.item[1][field]

\* the component mounts afresh and its load effect runs
LoadState ==
    /\ nodes' = Parsed(localStorage, "nodes", << >>)
    /\ edges' = Parsed(localStorage, "edges", << >>)
    /\ executionStates' = Parsed(localStorage, "executionStates", << >>)
    /\ selectedNodeId' = NoNode
    /\ timerRefs' = {}
    /\ startTimesRef' = {}
    /\ pending' = << >>
    /\ resolved' = << >>
    /\ lastOp' = Op("loadState", 0)
    /\ UNCHANGED <<uuid, retry, localStorage, extraction, resolving>>

\* one node added and selected, and a storage with nothing in it yet
ReloadInit ==
    /\ nodes = (1 :> NewNode("CHAPTER_GENERATION"))
    /\ edges = << >>
    /\ executionStates = (1 :> getInitialExecutionState)
    /\ selectedNodeId = 1
    /\ timerRefs = {}
    /\ startTimesRef = {}
    /\ pending = << >>
    /\ uuid = 1
    /\ resolved = << >>
    /\ lastOp = Op("init", 0)
    /\ retry = NoRetry
    /\ \E quota \in Quotas : localStorage = [quota |-> quota, item |-> NoItem]
    /\ extraction = NoExtraction
    /\ resolving = NoResolving

ReloadNext ==
    \/ \E id \in DOMAIN nodes : SelectNode(id)
    \/ \E id \in DOMAIN nodes : RunEnabled(id) /\ handleRunNode(id)
    \/ \E m \in UserMessages :
          ContinueEnabled /\ handleContinueNode(m) /\ uuid' <= MaxReloadUuid
    \/ \E i \in 1..Len(pending), r \in ResponseTexts :
          SettleSuccess(i, r) /\ uuid' <= MaxReloadUuid
    \/ \E i \in 1..Len(pending), m \in ErrorMessages : SettleError(i, m)
    \/ SaveState
    \/ LoadState

SpecReload == ReloadInit /\ [][ReloadNext]_vars

\* C29: in every reachable state, a state read back from the persisted blob included,
\* a node whose workflowState is PROCESSING has a runNode or continueNode call in
\* flight.
C29_ProcessingHasCall ==
    \A id \in DOMAIN executionStates :
        executionStates[id].workflowState = "PROCESSING" => CallsOf(id) # {}

----------------------------------------------------------------------------
(* The document store on its own: two nodes, the selected one already run once *)

StoreInit ==
    /\ nodes = (1 :> NewNode("CHAPTER_GENERATION")) @@
               (2 :> [NewNode("CHAPTER_GENERATION") EXCEPT !.status = "completed"])
    /\ edges = << >>
    /\ executionStates =
          (1 :> getInitialExecutionState) @@
          (2 :> [getInitialExecutionState EXCEPT
                    !.workflowState = "COMPLETED",
                    !.messages = << [id |-> 3, role |-> "user", content |-> <<"PROMPT">>,
                                     isHidden |-> TRUE],
                                    [id |-> 4, role |-> "assistant", content |-> <<"X">>,
                                     isHidden |-> FALSE] >>])
    /\ selectedNodeId = 2
    /\ timerRefs = {}
    /\ startTimesRef = {}
    /\ pending = << >>
    /\ uuid = 4
    /\ resolved = << >>
    /\ lastOp = Op("init", 0)
    /\ retry = NoRetry
    /\ localStorage = EmptyStorage
    /\ extraction = NoExtraction
    /\ resolving = NoResolving

\* the ids a caller can pass for a section: those in use, and one no section has
SectionArgs == SectionIds(executionStates) \cup {0}

VersionIds(states) ==
    UNION {UNION {{states[k].documentSections[i].versions[j].id :
                      j \in 1..Len(states[k].documentSections[i].versions)}
                  : i \in 1..Len(states[k].documentSections)}
           : k \in DOMAIN states}

\* the ids a caller can pass for a version: those in use, and one no version has
VersionArgs == VersionIds(executionStates) \cup {0}

MessageIds(id) ==
    IF id \in DOMAIN executionStates
    THEN {executionStates[id].messages[i].id : i \in 1..Len(executionStates[id].messages)}
    ELSE {}

StoreNext ==
    \/ \E m \in MessageIds(selectedNodeId), c \in Contents : handleAddSection(m, c)
    \/ \E sid \in SectionArgs, c \in Contents : handleUpdateSection(sid, c)
    \/ \E sid \in SectionArgs : handleDeleteSection(sid)
    \/ \E sid \in SectionArgs, vid \in VersionArgs : handleRevertVersion(sid, vid)

SpecStore == StoreInit /\ [][StoreNext]_vars

----------------------------------------------------------------------------
(* Properties of the versioned document store *)

VersionIdsOf(s) == {s.versions[j].id : j \in 1..Len(s.versions)}

\* C6: every document section of every node has a non-empty versions list and an
\* activeVersionId that is the id of one of its own versions, whatever section id and
\* version id revertSection is called with.
C6_ActiveVersionExists ==
    \A k \in DOMAIN executionStates :
        \A i \in 1..Len(executionStates[k].documentSections) :
            LET s == executionStates[k].documentSections[i]
            IN  s.versions # << >> /\ s.activeVersionId \in VersionIdsOf(s)

\* what one updateSection(sid) step does to the section list old, giving new
UpdateStep(old, new, sid) ==
    /\ Len(new) = Len(old)
    /\ \A i \in 1..Len(old) :
          IF old[i].id = sid
          THEN LET n == Len(old[i].versions)
                   added == new[i].versions[n + 1]
               IN  /\ Len(new[i].versions) = n + 1
                   /\ SubSeq(new[i].versions, 1, n) = old[i].versions
                   /\ added.source = "user-edited"
                   /\ added.id \notin VersionIdsOf(old[i])
                   /\ new[i].activeVersionId = added.id
                   /\ new[i] = [old[i] EXCEPT !.versions = new[i].versions,
                                              !.activeVersionId = added.id]
          ELSE new[i] = old[i]

\* C7: every updateSection call lengthens the section's versions list by exactly one
\* version, tagged user-edited and with a fresh id, leaves every earlier version as it
\* was (same id, content, tag and position) and makes the new version the active one;
\* so N calls give a list of length initial + N whose active version is the latest.
C7_UpdateAppendsVersion ==
    [][lastOp'.op = "updateSection" =>
          UpdateStep(executionStates[selectedNodeId].documentSections,
                     executionStates'[selectedNodeId].documentSections, lastOp'.a)]_vars

\* C7 witness: a section updated twice: three versions, the last one active
C7_Witness ==
    /\ lastOp.op = "updateSection"
    /\ \E i \in 1..Len(executionStates[selectedNodeId].documentSections) :
          LET s == executionStates[selectedNodeId].documentSections[i]
          IN  /\ s.id = lastOp.a
              /\ Len(s.versions) = 3
              /\ s.versions[1].source = "ai-generated"
              /\ s.activeVersionId = s.versions[3].id

\* what one revertSection(sid) step does to the section list old, giving new
RevertStep(old, new, sid) ==
    /\ Len(new) = Len(old)
    /\ \A i \in 1..Len(old) :
          /\ new[i] = [old[i] EXCEPT !.activeVersionId = new[i].activeVersionId]
          /\ old[i].id # sid => new[i] = old[i]

\* C8: revertSection changes only the activeVersionId of the one section it names: no
\* versions list changes in length or contents, no version is created, and every other
\* section, every other node's state, the nodes and the edges stay as they were.
C8_RevertOnlyRepoints ==
    [][lastOp'.op = "revertVersion" =>
          /\ nodes' = nodes /\ edges' = edges /\ uuid' = uuid
          /\ DOMAIN executionStates' = DOMAIN executionStates
          /\ \A k \in DOMAIN executionStates :
                /\ k # selectedNodeId => executionStates'[k] = executionStates[k]
                /\ executionStates'[k] =
                      [executionStates[k] EXCEPT
                          !.documentSections = executionStates'[k].documentSections]
          /\ RevertStep(executionStates[selectedNodeId].documentSections,
                        executionStates'[selectedNodeId].documentSections, lastOp'.a)]_vars

\* C8 witness: with two sections present, a section of two versions reverted to its first
C8_Witness ==
    /\ lastOp.op = "revertVersion"
    /\ Len(executionStates[selectedNodeId].documentSections) = 2
    /\ \E i \in 1..2 :
          LET s == executionStates[selectedNodeId].documentSections[i]
          IN  /\ s.id = lastOp.a
              /\ Len(s.versions) = 2
              /\ s.activeVersionId = s.versions[1].id

----------------------------------------------------------------------------
(* The order values of the sections of a node: sections added to the one node and
   deleted from it *)

MaxOrderUuid == 9

OrderNext ==
    \/ \E content \in Contents :
          handleAddSection(uuid, content) /\ uuid' <= MaxOrderUuid
    \/ \E sectionId \in SectionIds(executionStates) : handleDeleteSection(sectionId)

SpecOrder == TimerInit /\ [][OrderNext]_vars

\* C30: within one node the order values of the document sections are pairwise
\* distinct, after any sequence of addSection and deleteSection.
C30_DistinctOrders ==
    \A id \in DOMAIN executionStates :
        \A i, j \in DOMAIN executionStates[id].documentSections :
            executionStates[id].documentSections[i].order
               = executionStates[id].documentSections[j].order => i = j

====
